---- MODULE Spec2Model ----
(***************************************************************************)
(* A model of mlflow/store/sqlalchemy_store.py: the SQLAlchemy tracking    *)
(* store.  The database is a record of tables (sets or sequences of rows); *)
(* every transaction of a public method of SqlAlchemyStore is an operator   *)
(* from a database to a result [db, exc] and a step of the specifications: *)
(* a method that runs several managed sessions takes one step for each,    *)
(* and the calls of other clients come between them.  The concurrent       *)
(* specifications run the methods statement by statement against a READ    *)
(* COMMITTED database with row locks.                                      *)
(***************************************************************************)
EXTENDS Integers, Sequences, FiniteSets, TLC

VARIABLES
    db,      \* the committed database: a record of tables
    last,    \* the public call that returned last: its name, arguments and exception
    nops,    \* the number of public calls that have returned
    txs,     \* the transactions in flight (concurrent specifications only)
    pending  \* the calls that have committed a transaction and have another to run

vars == <<db, last, nops, txs, pending>>

(***************************************************************************)
(* Bounds of the model.                                                    *)
(***************************************************************************)
MaxOps == 5          \* public calls per behaviour, sequential store
MaxMetricOps == 4    \* public calls per behaviour, metric specification
MaxBatchOps == 4     \* public calls per behaviour, batch specification

(***************************************************************************)
(* Program constants.                                                      *)
(***************************************************************************)
\* 1.7976931348623157e308, the largest finite 64-bit float, scaled to the
\* model's value range: finite values are -FLOAT_MAX .. FLOAT_MAX.
FLOAT_MAX == 2
PosInf == FLOAT_MAX + 1       \* float("inf")
NegInf == 0 - (FLOAT_MAX + 1) \* float("-inf")
NaN == FLOAT_MAX + 2          \* float("nan"): a token, never ordered
DEFAULT_EXPERIMENT_ID == 0
None == 0 - 1                 \* Python's None where an integer is expected
DEFAULT_EXPERIMENT_NAME == "Default"
ARTIFACTS_FOLDER_NAME == "artifacts"
artifact_root_uri == "root"

ACTIVE == "active"
DELETED == "deleted"
ACTIVE_ONLY == "ACTIVE_ONLY"
DELETED_ONLY == "DELETED_ONLY"
ALL == "ALL"

\* error codes of MlflowException (mlflow.protos.databricks_pb2)
INVALID_PARAMETER_VALUE == "INVALID_PARAMETER_VALUE"
RESOURCE_ALREADY_EXISTS == "RESOURCE_ALREADY_EXISTS"
INVALID_STATE == "INVALID_STATE"
RESOURCE_DOES_NOT_EXIST == "RESOURCE_DOES_NOT_EXIST"
INTERNAL_ERROR == "INTERNAL_ERROR"
MlflowException ==
    {INVALID_PARAMETER_VALUE, RESOURCE_ALREADY_EXISTS, INVALID_STATE,
     RESOURCE_DOES_NOT_EXIST, INTERNAL_ERROR}
\* exceptions that are not MlflowException
IntegrityError == "IntegrityError"
NoExc == "none"

RUNNING == "RUNNING"
FINISHED == "FINISHED"
FAILED == "FAILED"

(***************************************************************************)
(* Helpers on sequences and sets.                                          *)
(***************************************************************************)
Range(s) == {s[i] : i \in 1..Len(s)}

\* lexicographic > on (step, timestamp, value) triples, as Python compares tuples
TupleGreater(a, b) ==
    \/ a[1] > b[1]
    \/ a[1] = b[1] /\ a[2] > b[2]
    \/ a[1] = b[1] /\ a[2] = b[2] /\ a[3] > b[3]

\* the result of a call: the database it leaves, the exception it raised (NoExc
\* if none) and the values the exception's message names
RI(d, exc, info) == [db |-> d, exc |-> exc, info |-> info]
R(d, exc) == RI(d, exc, <<>>)

(***************************************************************************)
(* The empty database: the seven tables of expected_tables, created by     *)
(* _initialize_tables.                                                     *)
(***************************************************************************)
_initialize_tables ==
    [experiments     |-> {},
     runs            |-> {},
     metrics         |-> <<>>,
     latest_metrics  |-> {},
     params          |-> {},
     tags            |-> {},
     experiment_tags |-> {}]

(***************************************************************************)
(* make_managed_session: the body ran on d0 and ended with out.  Commit on *)
(* a normal return; roll back and re-raise a MlflowException; roll back    *)
(* and wrap anything else as INTERNAL_ERROR.                               *)
(***************************************************************************)
make_managed_session_keeps_writes(d0, out) ==
    IF out.exc = NoExc THEN out
    ELSE IF out.exc \in MlflowException THEN out
    ELSE R(out.db, INTERNAL_ERROR)
make_managed_session(d0, out) ==
    IF out.exc = NoExc THEN out
    ELSE IF out.exc \in MlflowException THEN RI(d0, out.exc, out.info)
    ELSE R(d0, INTERNAL_ERROR)

_get_artifact_location(experiment_id) == <<artifact_root_uri, experiment_id>>

view_type_to_stages(view_type) ==
    CASE view_type = ACTIVE_ONLY -> {ACTIVE}
      [] view_type = DELETED_ONLY -> {DELETED}
      [] OTHER -> {ACTIVE, DELETED}

\* experiment_id is the primary key of experiments (lines 174-175): the rows an
\* INSERT of experiment_id collides with
experiment_pk_conflicts_none(d, experiment_id) == {}
experiment_pk_conflicts(d, experiment_id) ==
    {e \in d.experiments : e.experiment_id = experiment_id}

\* the INSERT statement of the default experiment, as the session runs it
_create_default_experiment(d) ==
    IF experiment_pk_conflicts(d, DEFAULT_EXPERIMENT_ID) # {} THEN R(d, IntegrityError)
    ELSE R([d EXCEPT !.experiments = @ \cup
               {[experiment_id     |-> DEFAULT_EXPERIMENT_ID,
                 name              |-> DEFAULT_EXPERIMENT_NAME,
                 artifact_location |-> _get_artifact_location(0),
                 lifecycle_stage   |-> ACTIVE]}], NoExc)

_list_experiments(d, ids, names, view_type) ==
    {e \in d.experiments :
        /\ e.lifecycle_stage \in view_type_to_stages(view_type)
        /\ (ids # {} => e.experiment_id \in ids)
        /\ (names # {} => e.name \in names)}

list_experiments(d, view_type) == _list_experiments(d, {}, {}, view_type)

\* _get_experiment: [exc, rows]; rows holds the one experiment when exc = NoExc.
\* "experiment_id or DEFAULT_EXPERIMENT_ID" replaces None by the default id.
_get_experiment(d, experiment_id, view_type) ==
    LET eid == IF experiment_id = None THEN DEFAULT_EXPERIMENT_ID ELSE experiment_id
        experiments == _list_experiments(d, {eid}, {}, view_type)
    IN  IF Cardinality(experiments) = 0 THEN [exc |-> RESOURCE_DOES_NOT_EXIST, rows |-> {}]
        ELSE IF Cardinality(experiments) > 1 THEN [exc |-> INVALID_STATE, rows |-> {}]
        ELSE [exc |-> NoExc, rows |-> experiments]

_get_run(d, run_uuid) ==
    LET runs == {r \in d.runs : r.run_uuid = run_uuid}
    IN  IF Cardinality(runs) = 0 THEN [exc |-> RESOURCE_DOES_NOT_EXIST, rows |-> {}]
        ELSE IF Cardinality(runs) > 1 THEN [exc |-> INVALID_STATE, rows |-> {}]
        ELSE [exc |-> NoExc, rows |-> runs]

The(rows) == CHOOSE r \in rows : TRUE

\* mutant: the guard lets a deleted run through
_check_run_is_active_skipped(run) == NoExc
\* mutant: the guard raises with the code of rename_experiment
_check_run_is_active_invalid_state(run) ==
    IF run.lifecycle_stage # ACTIVE THEN INVALID_STATE ELSE NoExc

_check_run_is_active(run) ==
    IF run.lifecycle_stage # ACTIVE THEN INVALID_PARAMETER_VALUE ELSE NoExc

_check_experiment_is_active(experiment) ==
    IF experiment.lifecycle_stage # ACTIVE THEN INVALID_PARAMETER_VALUE ELSE NoExc

_check_run_is_deleted(run) ==
    IF run.lifecycle_stage # DELETED THEN INVALID_PARAMETER_VALUE ELSE NoExc

(***************************************************************************)
(* Rows and the ORM's writes.                                              *)
(***************************************************************************)
\* session.merge(row): insert, or replace the row with the same primary key
merge_latest_metric(d, row) ==
    [d EXCEPT !.latest_metrics =
        {m \in @ : ~(m.run_uuid = row.run_uuid /\ m.key = row.key)} \cup {row}]

\* mutant: the row is inserted beside the row with the same primary key
merge_tag_inserts(d, row) == [d EXCEPT !.tags = @ \cup {row}]

merge_tag(d, row) ==
    [d EXCEPT !.tags =
        {t \in @ : ~(t.run_uuid = row.run_uuid /\ t.key = row.key)} \cup {row}]

merge_experiment_tag(d, row) ==
    [d EXCEPT !.experiment_tags =
        {t \in @ : ~(t.experiment_id = row.experiment_id /\ t.key = row.key)} \cup {row}]

\* _save_to_db of a changed run or experiment: UPDATE by primary key
update_run(d, run) ==
    [d EXCEPT !.runs = {r \in @ : r.run_uuid # run.run_uuid} \cup {run}]

update_experiment(d, experiment) ==
    [d EXCEPT !.experiments =
        {e \in @ : e.experiment_id # experiment.experiment_id} \cup {experiment}]

\* _get_or_create(model, **kwargs) where kwargs give every column of the row:
\* filter_by(**kwargs).first() finds the row itself or nothing
\* mutant: the row is created without looking for it
_get_or_create_always(rows, kwargs) == [instance |-> kwargs, created |-> TRUE]

_get_or_create(rows, kwargs) ==
    [instance |-> kwargs, created |-> kwargs \notin rows]

(***************************************************************************)
(* Runs.                                                                   *)
(***************************************************************************)
\* tags_dict of create_run: the last value given for each key wins
RECURSIVE tags_dict(_)
tags_dict(tags) ==
    IF tags = <<>> THEN {}
    ELSE LET n == Len(tags)
             rest == tags_dict(SubSeq(tags, 1, n - 1))
         IN  {t \in rest : t.key # tags[n].key} \cup {tags[n]}

get_experiment(d, experiment_id) == _get_experiment(d, experiment_id, ALL)

\* lines 327-328 of create_run: get_experiment reads the experiment in a managed
\* session of its own, which is committed and closed when it returns the detached
\* entity, and _check_experiment_is_active tests that entity
create_run_check(d, experiment_id) ==
    LET got == get_experiment(d, experiment_id)
    IN  IF got.exc # NoExc THEN got
        ELSE [exc |-> _check_experiment_is_active(The(got.rows)), rows |-> got.rows]

\* lines 330-347 of create_run and the commit of its session: the run and its tags
\* are inserted, with the artifact location of the experiment entity read before
create_run_save(d, experiment, experiment_id, run_id, start_time, tags) ==
    LET run == [run_uuid        |-> run_id,
                experiment_id   |-> experiment_id,
                artifact_uri    |-> experiment.artifact_location
                                    \o <<run_id, ARTIFACTS_FOLDER_NAME>>,
                status          |-> RUNNING,
                start_time      |-> start_time,
                end_time        |-> None,
                lifecycle_stage |-> ACTIVE]
        rows == {[run_uuid |-> run_id, key |-> t.key, value |-> t.value] :
                    t \in tags_dict(tags)}
    IN  R([d EXCEPT !.runs = @ \cup {run}, !.tags = @ \cup rows], NoExc)

\* the with block of create_run when no other client commits inside it
create_run_body(d, experiment_id, run_id, start_time, tags) ==
    LET got == create_run_check(d, experiment_id)
    IN  IF got.exc # NoExc THEN R(d, got.exc)
        ELSE create_run_save(d, The(got.rows), experiment_id, run_id, start_time, tags)

update_run_info_body(d, run_id, run_status, end_time) ==
    LET got == _get_run(d, run_id)
    IN  IF got.exc # NoExc THEN R(d, got.exc)
        ELSE LET run == The(got.rows)
                 chk == _check_run_is_active(run)
             IN  IF chk # NoExc THEN R(d, chk)
                 ELSE R(update_run(d, [run EXCEPT !.status = run_status,
                                                  !.end_time = end_time]), NoExc)

update_run_info(d, run_id, run_status, end_time) ==
    make_managed_session(d, update_run_info_body(d, run_id, run_status, end_time))

restore_run_body(d, run_id) ==
    LET got == _get_run(d, run_id)
    IN  IF got.exc # NoExc THEN R(d, got.exc)
        ELSE LET run == The(got.rows)
                 chk == _check_run_is_deleted(run)
             IN  IF chk # NoExc THEN R(d, chk)
                 ELSE R(update_run(d, [run EXCEPT !.lifecycle_stage = ACTIVE]), NoExc)

restore_run(d, run_id) == make_managed_session(d, restore_run_body(d, run_id))

delete_run_body(d, run_id) ==
    LET got == _get_run(d, run_id)
    IN  IF got.exc # NoExc THEN R(d, got.exc)
        ELSE LET run == The(got.rows)
                 chk == _check_run_is_active(run)
             IN  IF chk # NoExc THEN R(d, chk)
                 ELSE R(update_run(d, [run EXCEPT !.lifecycle_stage = DELETED]), NoExc)

delete_run(d, run_id) == make_managed_session(d, delete_run_body(d, run_id))

(***************************************************************************)
(* Metrics.                                                                *)
(***************************************************************************)
isnan(v) == v = NaN
isinf(v) == v \in {PosInf, NegInf}

\* the format rules of mlflow.utils.validation._validate_metric
_validate_metric(key, value, timestamp, step) ==
    key # "" /\ timestamp >= 0

\* mutant: an infinite value is stored as it is
log_metric_value_unclamped(v) == IF isnan(v) THEN 0 ELSE v
\* the value log_metric stores for metric.value
log_metric_value(v) ==
    IF isnan(v) THEN 0
    ELSE IF isinf(v) THEN (IF v > 0 THEN FLOAT_MAX ELSE 0 - FLOAT_MAX)
    ELSE v

\* mutant: the comparison leaves the value out
_compare_metrics_no_value(metric_a, metric_b) ==
    TupleGreater(<<metric_a.step, metric_a.timestamp, 0>>,
                 <<metric_b.step, metric_b.timestamp, 0>>)

_compare_metrics(metric_a, metric_b) ==
    TupleGreater(<<metric_a.step, metric_a.timestamp, metric_a.value>>,
                 <<metric_b.step, metric_b.timestamp, metric_b.value>>)

\* the rows of latest_metrics the locking query of
\* _update_latest_metric_if_necessary selects
latest_metric_rows(d, run_uuid, key) ==
    {m \in d.latest_metrics : m.run_uuid = run_uuid /\ m.key = key}

_update_latest_metric_if_necessary(d, logged_metric) ==
    LET found == latest_metric_rows(d, logged_metric.run_uuid, logged_metric.key)
    IN  IF found = {} \/ _compare_metrics(logged_metric, The(found))
        THEN merge_latest_metric(d, logged_metric)
        ELSE d

log_metric_body(d, run_id, key, value, timestamp, step, is_nan) ==
    LET got == _get_run(d, run_id)
    IN  IF got.exc # NoExc THEN R(d, got.exc)
        ELSE LET chk == _check_run_is_active(The(got.rows))
             IN  IF chk # NoExc THEN R(d, chk)
                 ELSE LET goc == _get_or_create(Range(d.metrics),
                                     [run_uuid |-> run_id, key |-> key, value |-> value,
                                      timestamp |-> timestamp, step |-> step,
                                      is_nan |-> is_nan])
                          d1 == [d EXCEPT !.metrics = Append(@, goc.instance)]
                      IN  IF goc.created
                          THEN R(_update_latest_metric_if_necessary(d1, goc.instance), NoExc)
                          ELSE R(d, NoExc)

log_metric(d, run_id, metric) ==
    IF ~_validate_metric(metric.key, metric.value, metric.timestamp, metric.step)
    THEN R(d, INVALID_PARAMETER_VALUE)
    ELSE make_managed_session(d,
            log_metric_body(d, run_id, metric.key, log_metric_value(metric.value),
                            metric.timestamp, metric.step, isnan(metric.value)))

\* Query.all() of a query without ORDER BY: the rows it matches, in an order the
\* database chooses
query_all(rows) == {s \in [1..Cardinality(rows) -> rows] : Range(s) = rows}

\* get_metric_history: the results the query for (run_id, metric_key) can return
get_metric_history(d, run_id, metric_key) ==
    LET metrics == {m \in Range(d.metrics) : m.run_uuid = run_id /\ m.key = metric_key}
    IN  {RI(d, NoExc, s) : s \in query_all(metrics)}

(***************************************************************************)
(* Params.                                                                 *)
(***************************************************************************)
\* the primary key of params, (run_uuid, key): the rows an INSERT of row collides with
param_pk_conflicts(d, row) ==
    {p \in d.params : p.run_uuid = row.run_uuid /\ p.key = row.key}

\* run.params read after the rollback: the values logged for the key
existing_params(d, run_id, key) ==
    {p.value : p \in {q \in d.params : q.run_uuid = run_id /\ q.key = key}}

\* the except-branch of log_param (lines 516-531): the commit raised
\* IntegrityError, the session was rolled back and d is the database when
\* run.params is read, in a new transaction
\* mutant: the conflicting param is not found, the IntegrityError is re-raised
log_param_reraise(d, run_id, param) == R(d, IntegrityError)

log_param_on_integrity_error(d, run_id, param) ==
    IF Cardinality(existing_params(d, run_id, param.key)) > 0
    THEN LET old_value == The(existing_params(d, run_id, param.key))
         IN  RI(d, INVALID_PARAMETER_VALUE, <<param.key, old_value, run_id, param.value>>)
    ELSE R(d, IntegrityError)

\* lines 495-515 of log_param, up to the inline session.commit(): the transaction
\* ends there, committed, or failed with the IntegrityError that line 516 catches
log_param_commit(d, run_id, param) ==
    LET got == _get_run(d, run_id)
    IN  IF got.exc # NoExc THEN R(d, got.exc)
        ELSE LET chk == _check_run_is_active(The(got.rows))
             IN  IF chk # NoExc THEN R(d, chk)
                 ELSE LET row == [run_uuid |-> run_id, key |-> param.key,
                                  value |-> param.value]
                          goc == _get_or_create(d.params, row)
                      IN  IF ~goc.created THEN R(d, NoExc)
                          ELSE IF param_pk_conflicts(d, row) = {}
                          THEN R([d EXCEPT !.params = @ \cup {row}], NoExc)
                          ELSE R(d, IntegrityError)

\* log_param when no other client commits between its failed commit and the read
\* of run.params in the except branch
log_param(d, run_id, param) ==
    LET out == log_param_commit(d, run_id, param)
    IN  make_managed_session(d, IF out.exc = IntegrityError
                                THEN log_param_on_integrity_error(d, run_id, param)
                                ELSE out)

(***************************************************************************)
(* Tags.                                                                   *)
(***************************************************************************)
\* the format rules of mlflow.utils.validation._validate_tag and
\* _validate_experiment_tag
_validate_tag(key, value) == key # ""
_validate_experiment_tag(key, value) == key # ""

set_tag_body(d, run_id, tag) ==
    IF ~_validate_tag(tag.key, tag.value) THEN R(d, INVALID_PARAMETER_VALUE)
    ELSE LET got == _get_run(d, run_id)
         IN  IF got.exc # NoExc THEN R(d, got.exc)
             ELSE LET chk == _check_run_is_active(The(got.rows))
                  IN  IF chk # NoExc THEN R(d, chk)
                      ELSE R(merge_tag(d, [run_uuid |-> run_id, key |-> tag.key,
                                           value |-> tag.value]), NoExc)

set_tag(d, run_id, tag) == make_managed_session(d, set_tag_body(d, run_id, tag))

delete_tag_body(d, run_id, key) ==
    LET got == _get_run(d, run_id)
    IN  IF got.exc # NoExc THEN R(d, got.exc)
        ELSE LET chk == _check_run_is_active(The(got.rows))
                 filtered_tags == {t \in d.tags : t.run_uuid = run_id /\ t.key = key}
             IN  IF chk # NoExc THEN R(d, chk)
                 ELSE IF Cardinality(filtered_tags) = 0 THEN R(d, RESOURCE_DOES_NOT_EXIST)
                 ELSE IF Cardinality(filtered_tags) > 1 THEN R(d, INVALID_STATE)
                 ELSE R([d EXCEPT !.tags = @ \ filtered_tags], NoExc)

delete_tag(d, run_id, key) == make_managed_session(d, delete_tag_body(d, run_id, key))

(***************************************************************************)
(* Experiments.                                                            *)
(***************************************************************************)
\* the unique constraint on experiments.name: the rows a write of
\* `experiment` collides with
experiment_name_conflicts(d, experiment) ==
    {e \in d.experiments :
        /\ e.experiment_id # experiment.experiment_id
        /\ e.name = experiment.name
        /\ e.lifecycle_stage # DELETED
        /\ experiment.lifecycle_stage # DELETED}

\* mutant: the runs of the experiment are deleted with it
delete_experiment_cascades(d, experiment_id) ==
    LET got == _get_experiment(d, experiment_id, ACTIVE_ONLY)
    IN  IF got.exc # NoExc THEN R(d, got.exc)
        ELSE R([update_experiment(d, [The(got.rows) EXCEPT !.lifecycle_stage = DELETED])
                   EXCEPT !.runs = {IF r.experiment_id = The(got.rows).experiment_id
                                    THEN [r EXCEPT !.lifecycle_stage = DELETED] ELSE r :
                                       r \in @}],
               NoExc)
delete_experiment_body(d, experiment_id) ==
    LET got == _get_experiment(d, experiment_id, ACTIVE_ONLY)
    IN  IF got.exc # NoExc THEN R(d, got.exc)
        ELSE R(update_experiment(d, [The(got.rows) EXCEPT !.lifecycle_stage = DELETED]),
               NoExc)

delete_experiment(d, experiment_id) ==
    make_managed_session(d, delete_experiment_body(d, experiment_id))

\* mutant: the experiment is looked up in any stage
restore_experiment_any_stage(d, experiment_id) ==
    LET got == _get_experiment(d, experiment_id, ALL)
    IN  IF got.exc # NoExc THEN R(d, got.exc)
        ELSE R(update_experiment(d, [The(got.rows) EXCEPT !.lifecycle_stage = ACTIVE]), NoExc)
restore_experiment_body(d, experiment_id) ==
    LET got == _get_experiment(d, experiment_id, DELETED_ONLY)
    IN  IF got.exc # NoExc THEN R(d, got.exc)
        ELSE LET experiment == [The(got.rows) EXCEPT !.lifecycle_stage = ACTIVE]
             IN  IF experiment_name_conflicts(d, experiment) # {}
                 THEN R(d, IntegrityError)
                 ELSE R(update_experiment(d, experiment), NoExc)

restore_experiment(d, experiment_id) ==
    make_managed_session(d, restore_experiment_body(d, experiment_id))

rename_experiment_body(d, experiment_id, new_name) ==
    LET got == _get_experiment(d, experiment_id, ALL)
    IN  IF got.exc # NoExc THEN R(d, got.exc)
        ELSE IF The(got.rows).lifecycle_stage # ACTIVE THEN R(d, INVALID_STATE)
        ELSE LET experiment == [The(got.rows) EXCEPT !.name = new_name]
             IN  IF experiment_name_conflicts(d, experiment) # {}
                 THEN R(d, IntegrityError)
                 ELSE R(update_experiment(d, experiment), NoExc)

rename_experiment(d, experiment_id, new_name) ==
    make_managed_session(d, rename_experiment_body(d, experiment_id, new_name))

\* no caller gave an artifact_location: None or ''
NoLocation == <<>>

\* the id the autoincrement column gives the next INSERT (line 247)
next_experiment_id(d) ==
    1 + CHOOSE n \in {e.experiment_id : e \in d.experiments} \cup {0} :
            \A e \in d.experiments : e.experiment_id <= n

\* line 248: the rows query(SqlExperiment).filter_by(name=name) returns; first()
\* takes one of them, and nothing orders them
experiments_named(d, name) == {e \in d.experiments : e.name = name}

\* lines 240-252; `first` is the row first() returns
create_experiment_body(d, name, artifact_location, first) ==
    LET experiment == [experiment_id     |-> next_experiment_id(d),
                       name              |-> name,
                       artifact_location |-> artifact_location,
                       lifecycle_stage   |-> ACTIVE]
        conflicts == experiment_name_conflicts(d, experiment)
        added == [d EXCEPT !.experiments = @ \cup {experiment}]
    IN  IF artifact_location = NoLocation
        THEN \* the query autoflushes the INSERT inside the try block
             IF conflicts # {} THEN RI(d, RESOURCE_ALREADY_EXISTS, <<name>>)
             ELSE RI(update_experiment(added,
                        [experiment EXCEPT !.artifact_location =
                                               _get_artifact_location(first.experiment_id)]),
                     NoExc, <<experiment.experiment_id>>)
        ELSE \* session.flush() of line 251 sends the INSERT, after the try block
             IF conflicts # {} THEN R(d, IntegrityError)
             ELSE RI(added, NoExc, <<experiment.experiment_id>>)

\* the rows first() may return for a call on d
create_experiment_first(d, name) ==
    experiments_named(d, name)
    \cup {[experiment_id     |-> next_experiment_id(d),
           name              |-> name,
           artifact_location |-> NoLocation,
           lifecycle_stage   |-> ACTIVE]}

create_experiment(d, name, artifact_location, first) ==
    IF name = "" THEN R(d, INVALID_PARAMETER_VALUE)
    ELSE make_managed_session(d, create_experiment_body(d, name, artifact_location, first))

set_experiment_tag_body(d, experiment_id, tag) ==
    LET got == _get_experiment(d, experiment_id, ALL)
    IN  IF got.exc # NoExc THEN R(d, got.exc)
        ELSE LET chk == _check_experiment_is_active(The(got.rows))
             IN  IF chk # NoExc THEN R(d, chk)
                 ELSE R(merge_experiment_tag(d,
                            [experiment_id |-> experiment_id, key |-> tag.key,
                             value |-> tag.value]), NoExc)

set_experiment_tag(d, experiment_id, tag) ==
    IF ~_validate_experiment_tag(tag.key, tag.value) THEN R(d, INVALID_PARAMETER_VALUE)
    ELSE make_managed_session(d, set_experiment_tag_body(d, experiment_id, tag))

(***************************************************************************)
(* log_batch.                                                              *)
(***************************************************************************)
\* the limits of mlflow.utils.validation._validate_batch_log_limits, scaled
MAX_METRICS_PER_BATCH == 2
MAX_PARAMS_TAGS_PER_BATCH == 2
MAX_ENTITIES_PER_BATCH == 3

_validate_run_id(run_id) == run_id # ""
_validate_param(key, value) == key # ""

_validate_batch_log_data(metrics, params, tags) ==
    /\ \A i \in 1..Len(metrics) :
          _validate_metric(metrics[i].key, metrics[i].value, metrics[i].timestamp,
                           metrics[i].step)
    /\ \A i \in 1..Len(params) : _validate_param(params[i].key, params[i].value)
    /\ \A i \in 1..Len(tags) : _validate_tag(tags[i].key, tags[i].value)

_validate_batch_log_limits(metrics, params, tags) ==
    /\ Len(metrics) <= MAX_METRICS_PER_BATCH
    /\ Len(params) <= MAX_PARAMS_TAGS_PER_BATCH
    /\ Len(tags) <= MAX_PARAMS_TAGS_PER_BATCH
    /\ Len(metrics) + Len(params) + Len(tags) <= MAX_ENTITIES_PER_BATCH

\* the session log_batch opens first: the run exists and is active
log_batch_check_body(d, run_id) ==
    LET got == _get_run(d, run_id)
    IN  IF got.exc # NoExc THEN R(d, got.exc)
        ELSE R(d, _check_run_is_active(The(got.rows)))

\* what log_batch raises before it applies anything, NoExc if nothing
log_batch_check(d, run_id, metrics, params, tags) ==
    IF ~_validate_run_id(run_id) THEN INVALID_PARAMETER_VALUE
    ELSE IF ~_validate_batch_log_data(metrics, params, tags) THEN INVALID_PARAMETER_VALUE
    ELSE IF ~_validate_batch_log_limits(metrics, params, tags) THEN INVALID_PARAMETER_VALUE
    ELSE make_managed_session(d, log_batch_check_body(d, run_id)).exc

\* the calls of the try block, in the order the three loops make them
log_batch_calls(metrics, params, tags) ==
    [i \in 1..Len(params) |-> [kind |-> "param", item |-> params[i]]]
    \o [i \in 1..Len(metrics) |-> [kind |-> "metric", item |-> metrics[i]]]
    \o [i \in 1..Len(tags) |-> [kind |-> "tag", item |-> tags[i]]]

\* one call of the try block, in a managed session of its own: its transaction,
\* which for a param ends at the inline commit of log_param
log_batch_call(d, run_id, call) ==
    CASE call.kind = "param" -> log_param_commit(d, run_id, call.item)
      [] call.kind = "metric" -> log_metric(d, run_id, call.item)
      [] OTHER -> set_tag(d, run_id, call.item)

\* the except clauses of log_batch: MlflowException as it is, anything else wrapped
log_batch_raise(exc) ==
    IF exc \in MlflowException THEN exc ELSE INTERNAL_ERROR

\* mutant: an exception of a call is swallowed and the loops go on
log_batch_swallows(exc) == TRUE

\* whether the loops go on after a call that ended with exc
log_batch_goes_on(exc) == exc = NoExc

(***************************************************************************)
(* The store after construction on an empty database, and the calls of    *)
(* the clients.  A call that runs in one transaction is one step.  A call  *)
(* that runs in more than one (create_run, log_param, log_batch, the       *)
(* constructor) is one step for each; between two of them it is held in    *)
(* `pending`, and the calls of the other clients go on.                    *)
(***************************************************************************)
\* line 99 of __init__: list_experiments() in a session of its own finds no
\* active experiment
store_init_list(d) == list_experiments(d, ACTIVE_ONLY) = {}

\* lines 100-101 of __init__: _create_default_experiment in a second session
store_init_create(d) == make_managed_session(d, _create_default_experiment(d))

\* the constructor when no other client commits between its two sessions
store_init(d) == IF store_init_list(d) THEN store_init_create(d) ELSE R(d, NoExc)

NoCall == [op |-> "__init__", args |-> <<>>, exc |-> NoExc, info |-> <<>>, changed |-> TRUE]

Init ==
    /\ db = store_init(_initialize_tables).db
    /\ last = NoCall
    /\ nops = 0
    /\ txs = <<>>
    /\ pending = <<>>

\* a public call `op` with arguments `args` returned (or raised) `res`
Call(op, args, res) ==
    /\ db' = res.db
    /\ last' = [op |-> op, args |-> args, exc |-> res.exc, info |-> res.info,
                changed |-> res.db # db]
    /\ nops' = nops + 1
    /\ UNCHANGED <<txs, pending>>

RunIds == {"r1", "r2", "r3"}
FreshRunIds(d) == RunIds \ {r.run_uuid : r \in d.runs}

\* the clients: each has at most one call in flight
Procs == {1, 2}

\* a call in flight between two of its transactions: pc is the transaction it
\* runs next
NewCall(op, args, pc) ==
    [op |-> op, args |-> args, pc |-> pc,
     found |-> {},     \* the experiment entity create_run got from get_experiment
     pos |-> 0,        \* log_batch: the calls of the try block that have returned
     calls |-> <<>>]   \* log_batch: the calls of the try block

Pending(op, pc) == {i \in DOMAIN pending : pending[i].op = op /\ pending[i].pc = pc}

Remove(s, i) == SubSeq(s, 1, i - 1) \o SubSeq(s, i + 1, Len(s))

\* the first transaction of a call is over and the call goes on
Begin(call) ==
    /\ Len(pending) < Cardinality(Procs)
    /\ pending' = Append(pending, call)
    /\ UNCHANGED <<db, last, nops, txs>>

\* call i in flight returns (or raises) res after its last transaction
Return(i, args, res) ==
    /\ pending' = Remove(pending, i)
    /\ db' = res.db
    /\ last' = [op |-> pending[i].op, args |-> args, exc |-> res.exc, info |-> res.info,
                changed |-> res.db # db]
    /\ nops' = nops + 1
    /\ UNCHANGED txs

\* create_run, lines 327-328: the experiment is read and tested, and uuid4()
\* (line 330) gives an id that no run and no other create_run has
CreateRunCheck(Exps, Ids, Tags) ==
    \E e \in Exps, tags \in Tags :
        \E run_id \in (Ids \cap FreshRunIds(db))
                         \ {pending[i].args.run_id : i \in Pending("create_run", "save")} :
            LET args == [experiment_id |-> e, run_id |-> run_id, tags |-> tags]
                got == create_run_check(db, e)
            IN  IF got.exc # NoExc
                THEN Call("create_run", args, R(db, got.exc))
                ELSE Begin([NewCall("create_run", args, "save") EXCEPT !.found = got.rows])

\* create_run, lines 330-347 and the commit of its session
CreateRunSave ==
    \E i \in Pending("create_run", "save") :
        LET a == pending[i].args
        IN  Return(i, a, make_managed_session(db,
                create_run_save(db, The(pending[i].found), a.experiment_id, a.run_id, 0,
                                a.tags)))

CreateRun(Exps, Ids, Tags) == CreateRunCheck(Exps, Ids, Tags) \/ CreateRunSave

LogMetric(Runs, Metrics) ==
    \E r \in Runs, m \in Metrics :
        Call("log_metric", [run_id |-> r, metric |-> m], log_metric(db, r, m))

\* log_param, lines 494-515: the transaction that ends at the inline commit
LogParamCommit(Runs, Params) ==
    \E r \in Runs, p \in Params :
        LET args == [run_id |-> r, param |-> p]
            out == log_param_commit(db, r, p)
        IN  IF out.exc = IntegrityError
            THEN Begin(NewCall("log_param", args, "rollback"))
            ELSE Call("log_param", args, make_managed_session(db, out))

\* log_param, lines 516-531: the rollback, run.params read again, and the raise
LogParamRollback ==
    \E i \in Pending("log_param", "rollback") :
        LET a == pending[i].args
        IN  Return(i, a, make_managed_session(db,
                log_param_on_integrity_error(db, a.run_id, a.param)))

LogParam(Runs, Params) == LogParamCommit(Runs, Params) \/ LogParamRollback

SetTag(Runs, Tags) ==
    \E r \in Runs, t \in Tags :
        Call("set_tag", [run_id |-> r, tag |-> t], set_tag(db, r, t))

DeleteTag(Runs, Keys) ==
    \E r \in Runs, k \in Keys :
        Call("delete_tag", [run_id |-> r, key |-> k], delete_tag(db, r, k))

UpdateRunInfo(Runs, Statuses, Times) ==
    \E r \in Runs, st \in Statuses, t \in Times :
        Call("update_run_info", [run_id |-> r, run_status |-> st, end_time |-> t],
             update_run_info(db, r, st, t))

DeleteRun(Runs) ==
    \E r \in Runs : Call("delete_run", [run_id |-> r], delete_run(db, r))

RestoreRun(Runs) ==
    \E r \in Runs : Call("restore_run", [run_id |-> r], restore_run(db, r))

\* the log_batch that returned last: `applied` calls of its try block returned
\* normally; None when it raised before the try block
BatchCall(args, res, applied) ==
    [op |-> "log_batch", args |-> args, exc |-> res.exc, info |-> res.info,
     changed |-> res.db # db, applied |-> applied]

\* log_batch i in flight raises or returns res, `applied` calls having returned
BatchReturn(i, res, applied) ==
    /\ pending' = Remove(pending, i)
    /\ db' = res.db
    /\ last' = BatchCall(pending[i].args, res, applied)
    /\ nops' = nops + 1
    /\ UNCHANGED txs

\* log_batch i in flight goes on after a transaction that left d
BatchGoesOn(i, d, pos, pc) ==
    /\ pending' = [pending EXCEPT ![i] = [@ EXCEPT !.pos = pos, !.pc = pc]]
    /\ db' = d
    /\ UNCHANGED <<last, nops, txs>>

\* log_batch i in flight after the call of its try block that ended with res: the
\* except clauses (lines 627-630), the next call, or the return after the last
BatchAfterCall(i, res) ==
    LET t == pending[i]
    IN  IF ~log_batch_goes_on(res.exc)
        THEN BatchReturn(i, RI(res.db, log_batch_raise(res.exc), res.info), t.pos)
        ELSE IF t.pos + 1 < Len(t.calls)
        THEN BatchGoesOn(i, res.db, t.pos + 1, "call")
        ELSE BatchReturn(i, R(res.db, NoExc), t.pos + 1)

\* log_batch, lines 614-619: the validations and the up-front session
LogBatchCheck(Runs, Batches) ==
    \E r \in Runs, b \in Batches :
        LET args == [run_id |-> r, batch |-> b]
            chk == log_batch_check(db, r, b.metrics, b.params, b.tags)
            calls == log_batch_calls(b.metrics, b.params, b.tags)
        IN  IF chk # NoExc
            THEN /\ last' = BatchCall(args, R(db, chk), None)
                 /\ nops' = nops + 1
                 /\ UNCHANGED <<db, txs, pending>>
            ELSE IF calls = <<>>
            THEN /\ last' = BatchCall(args, R(db, NoExc), 0)
                 /\ nops' = nops + 1
                 /\ UNCHANGED <<db, txs, pending>>
            ELSE Begin([NewCall("log_batch", args, "call") EXCEPT !.calls = calls])

\* log_batch, lines 620-630: the transaction of the next call of the try block
LogBatchCall ==
    \E i \in Pending("log_batch", "call") :
        LET t == pending[i]
            call == t.calls[t.pos + 1]
            out == log_batch_call(db, t.args.run_id, call)
        IN  IF call.kind = "param" /\ out.exc = IntegrityError
            THEN BatchGoesOn(i, db, t.pos, "rollback")
            ELSE BatchAfterCall(i, make_managed_session(db, out))

\* log_batch in the except branch of its log_param (lines 516-531)
LogBatchParamRollback ==
    \E i \in Pending("log_batch", "rollback") :
        LET t == pending[i]
        IN  BatchAfterCall(i, make_managed_session(db,
                log_param_on_integrity_error(db, t.args.run_id, t.calls[t.pos + 1].item)))

LogBatch(Runs, Batches) ==
    LogBatchCheck(Runs, Batches) \/ LogBatchCall \/ LogBatchParamRollback

DeleteExperiment(Exps) ==
    \E e \in Exps :
        Call("delete_experiment", [experiment_id |-> e], delete_experiment(db, e))

RestoreExperiment(Exps) ==
    \E e \in Exps :
        Call("restore_experiment", [experiment_id |-> e], restore_experiment(db, e))

RenameExperiment(Exps, Names) ==
    \E e \in Exps, n \in Names :
        Call("rename_experiment", [experiment_id |-> e, new_name |-> n],
             rename_experiment(db, e, n))

SetExperimentTag(Exps, Tags) ==
    \E e \in Exps, t \in Tags :
        Call("set_experiment_tag", [experiment_id |-> e, tag |-> t],
             set_experiment_tag(db, e, t))

(***************************************************************************)
(* SpecMetric: one run, metrics logged in any order.                       *)
(***************************************************************************)
MetricKeys == {"k1", "k2"}
MetricValues == {NaN, NegInf, 0, 1, PosInf}
\* every value, timestamp and step for k1; two facts of k2 beside them
MetricInputs ==
    [key : {"k1"}, value : MetricValues, timestamp : {0, 1}, step : {0, 1}]
    \cup [key : {"k2"}, value : {0, 1}, timestamp : {0}, step : {0}]

M_create_run ==
    nops < MaxMetricOps /\ CreateRun({DEFAULT_EXPERIMENT_ID}, {"r1"}, {<<>>})
M_log_metric ==
    nops < MaxMetricOps /\ LogMetric({"r1"}, MetricInputs)

MetricNext == M_create_run \/ M_log_metric

SpecMetric == Init /\ [][MetricNext]_vars

(***************************************************************************)
(* Spec: the sequential store.  One experiment, one run, every mutating    *)
(* call and the lifecycle calls, in any order.                             *)
(***************************************************************************)
KV(k, v) == [key |-> k, value |-> v]
M(k, v, t, s) == [key |-> k, value |-> v, timestamp |-> t, step |-> s]
Batch(ms, ps, ts) == [metrics |-> ms, params |-> ps, tags |-> ts]

S_Batches ==
    {Batch(<<M("k1", 1, 0, 0)>>, <<KV("p", "a")>>, <<KV("t", "a")>>)}

S_create_run ==
    nops < MaxOps /\ CreateRun({DEFAULT_EXPERIMENT_ID, None}, {"r1"}, {<<>>})
S_delete_run == nops < MaxOps /\ DeleteRun({"r1"})
S_restore_run == nops < MaxOps /\ RestoreRun({"r1"})
S_update_run_info == nops < MaxOps /\ UpdateRunInfo({"r1"}, {FINISHED}, {1})
S_log_metric == nops < MaxOps /\ LogMetric({"r1"}, {M("k1", 0, 0, 0), M("", 0, 0, 0)})
S_log_param == nops < MaxOps /\ LogParam({"r1"}, {KV("p", "a"), KV("p", "b")})
S_set_tag == nops < MaxOps /\ SetTag({"r1"}, {KV("t", "a"), KV("t", "b"), KV("", "a")})
S_delete_tag == nops < MaxOps /\ DeleteTag({"r1"}, {"t"})
S_log_batch == nops < MaxOps /\ LogBatch({"r1"}, S_Batches)
S_delete_experiment == nops < MaxOps /\ DeleteExperiment({DEFAULT_EXPERIMENT_ID})
S_restore_experiment == nops < MaxOps /\ RestoreExperiment({DEFAULT_EXPERIMENT_ID})
S_rename_experiment == nops < MaxOps /\ RenameExperiment({DEFAULT_EXPERIMENT_ID}, {"x"})
S_set_experiment_tag ==
    nops < MaxOps /\ SetExperimentTag({DEFAULT_EXPERIMENT_ID}, {KV("t", "a"), KV("", "a")})

Next ==
    \/ S_create_run \/ S_delete_run \/ S_restore_run \/ S_update_run_info
    \/ S_log_metric \/ S_log_param \/ S_set_tag \/ S_delete_tag \/ S_log_batch
    \/ S_delete_experiment \/ S_restore_experiment \/ S_rename_experiment
    \/ S_set_experiment_tag

Spec == Init /\ [][Next]_vars

FactsOf(d, r, k) == {m \in Range(d.metrics) : m.run_uuid = r /\ m.key = k}
Triple(m) == <<m.step, m.timestamp, m.value>>
\* the facts of (r, k) no other fact of (r, k) is greater than
Greatest(d, r, k) ==
    {f \in FactsOf(d, r, k) : \A g \in FactsOf(d, r, k) : ~TupleGreater(Triple(g), Triple(f))}
\* the position in the metrics table of the fact first logged among fs
FirstLogged(d, fs) ==
    d.metrics[CHOOSE i \in 1..Len(d.metrics) :
                 /\ d.metrics[i] \in fs
                 /\ \A j \in 1..(i - 1) : d.metrics[j] \notin fs]

\* C1 as stated: for every (run_id, key) with a logged fact, the LatestMetric row
\* is the logged fact with the greatest (step, timestamp, value), whatever the
\* order of logging: every fact that has the greatest triple is the row.
C1_Original ==
    \A r \in RunIds, k \in MetricKeys :
        \A f \in Greatest(db, r, k) : latest_metric_rows(db, r, k) = {f}

\* C1, amended: for every (run_id, key) with a logged fact there is exactly one
\* LatestMetric row, its (step, timestamp, value) is the greatest among the logged
\* facts, and it is the fact logged first among those with that triple (a NaN,
\* stored as 0 with is_nan, and a genuine 0 can share the triple).
C1_LatestIsFirstGreatest ==
    \A r \in RunIds, k \in MetricKeys :
        IF FactsOf(db, r, k) = {}
        THEN latest_metric_rows(db, r, k) = {}
        ELSE latest_metric_rows(db, r, k) = {FirstLogged(db, Greatest(db, r, k))}

\* C1 witness: three facts of one key were logged, the greatest of them not last,
\* and the LatestMetric row is not the fact logged last.
C1_Witness ==
    /\ last.op = "log_metric" /\ last.exc = NoExc
    /\ \E k \in MetricKeys :
        /\ Cardinality(FactsOf(db, "r1", k)) >= 3
        /\ db.metrics[Len(db.metrics)] \in FactsOf(db, "r1", k)
        /\ db.metrics[Len(db.metrics)] \notin Greatest(db, "r1", k)
        /\ latest_metric_rows(db, "r1", k) # {db.metrics[Len(db.metrics)]}

(***************************************************************************)
(* Properties of the sequential store.                                     *)
(***************************************************************************)
RunStages(d, run_id) == {r.lifecycle_stage : r \in {x \in d.runs : x.run_uuid = run_id}}
ExperimentStages(d, experiment_id) ==
    {e.lifecycle_stage :
        e \in {x \in d.experiments :
                 x.experiment_id = IF experiment_id = None THEN DEFAULT_EXPERIMENT_ID
                                   ELSE experiment_id}}

RunMutators ==
    {"log_metric", "log_param", "set_tag", "delete_tag", "update_run_info", "log_batch"}
ExperimentMutators == {"set_experiment_tag", "rename_experiment", "create_run"}

\* the call that returned last was a mutation of a run or experiment that is Deleted
OnDeleted(d, call) ==
    \/ call.op \in RunMutators /\ DELETED \in RunStages(d, call.args.run_id)
    \/ call.op \in ExperimentMutators
       /\ DELETED \in ExperimentStages(d, call.args.experiment_id)

\* a call returns from its first transaction: the state before the step is the
\* state the call was made on. (A call that returns from a later transaction
\* passed its check of the lifecycle stage in an earlier one, on an Active entity.)
ReturnsAtOnce == nops' # nops /\ pending' = pending

\* C3: a mutating call on a run or experiment that is Deleted when the call is made
\* raises, and the database after the call is the database before it.
C3_DeletedRejectsMutation ==
    [][(ReturnsAtOnce /\ OnDeleted(db, last'))
          => (last'.exc \in MlflowException /\ db' = db)]_vars

\* C3 witness: a log_metric on a Deleted run that holds a metric, a param and a
\* tag has raised.
C3_Witness ==
    /\ last.op = "log_metric" /\ last.exc # NoExc
    /\ _validate_metric(last.args.metric.key, 0, 0, 0)
    /\ DELETED \in RunStages(db, "r1")
    /\ db.metrics # <<>> /\ db.params # {} /\ db.tags # {}

\* C4 as stated: the error of a mutation attempted on a Deleted run or experiment
\* is INVALID_STATE, for each of the eight operations.
C4_Original ==
    [][(ReturnsAtOnce /\ last'.op # "log_batch" /\ OnDeleted(db, last'))
          => last'.exc = INVALID_STATE]_vars

\* C4, amended: the error is INVALID_PARAMETER_VALUE for log_metric, log_param,
\* set_tag, delete_tag, update_run_info, set_experiment_tag and create_run, and
\* INVALID_STATE for rename_experiment alone.
C4_ErrorKindOnDeleted ==
    [][(ReturnsAtOnce /\ last'.op # "log_batch" /\ OnDeleted(db, last'))
          => last'.exc = IF last'.op = "rename_experiment" THEN INVALID_STATE
                         ELSE INVALID_PARAMETER_VALUE]_vars

\* C4 witness: update_run_info on a Deleted run has raised INVALID_PARAMETER_VALUE.
C4_Witness ==
    /\ last.op = "update_run_info" /\ DELETED \in RunStages(db, "r1")
    /\ last.exc = INVALID_PARAMETER_VALUE

ParamsOf(d, run_id, key) == {p \in d.params : p.run_uuid = run_id /\ p.key = key}
ParamRow(call) ==
    [run_uuid |-> call.args.run_id, key |-> call.args.param.key,
     value |-> call.args.param.value]

\* C6: log_param of a (run_id, key, value) that is already stored, on an Active
\* run, returns normally and leaves exactly the one Param row of that key.
C6_LogParamIdempotent ==
    [][(/\ nops' # nops /\ last'.op = "log_param"
        /\ ACTIVE \in RunStages(db, last'.args.run_id)
        /\ ParamRow(last') \in db.params)
          => (/\ last'.exc = NoExc
              /\ db'.params = db.params
              /\ ParamsOf(db', last'.args.run_id, last'.args.param.key)
                    = {ParamRow(last')})]_vars

\* C6 witness: a log_param has returned normally without changing the database,
\* its param being stored already.
C6_Witness ==
    /\ last.op = "log_param" /\ last.exc = NoExc /\ ~last.changed
    /\ ParamRow(last) \in db.params

\* a log_param step whose key is stored with another value for an Active run
ParamConflictStep(code) ==
    (/\ nops' # nops /\ last'.op = "log_param"
     /\ ACTIVE \in RunStages(db, last'.args.run_id)
     /\ \E p \in ParamsOf(db, last'.args.run_id, last'.args.param.key) :
           p.value # last'.args.param.value)
       => (/\ last'.exc = code
           /\ \E p \in ParamsOf(db, last'.args.run_id, last'.args.param.key) :
                 p.value = last'.info[2]
           /\ db'.params = db.params)

\* params are write-once: a step removes or changes no param and leaves at most
\* one row for each (run_id, key)
ParamsKept ==
    /\ db.params \subseteq db'.params
    /\ \A p, q \in db'.params : (p.run_uuid = q.run_uuid /\ p.key = q.key) => p = q

\* C7 as stated: log_param with a value other than the stored one raises
\* RESOURCE_ALREADY_EXISTS naming the stored value, and the params stay as they
\* were; no call ever removes or changes a param.
C7_Original ==
    [][ParamConflictStep(RESOURCE_ALREADY_EXISTS) /\ ParamsKept]_vars

\* C7, amended: the error is INVALID_PARAMETER_VALUE; the rest as stated.
C7_ParamWriteOnce ==
    [][ParamConflictStep(INVALID_PARAMETER_VALUE) /\ ParamsKept]_vars

\* C7 witness: a log_param of "b" for a key stored with "a" has raised, naming "a".
C7_Witness ==
    /\ last.op = "log_param" /\ last.exc = INVALID_PARAMETER_VALUE
    /\ last.args.param.value = "b" /\ last.info = <<"p", "a", "r1", "b">>
    /\ ParamsOf(db, "r1", "p") = {[run_uuid |-> "r1", key |-> "p", value |-> "a"]}

(***************************************************************************)
(* SpecBatch: log_batch call by call.  Each call of its try block is a     *)
(* managed session of its own, so the calls of other clients (delete_run,  *)
(* restore_run, log_param) come between them.  pending holds the          *)
(* log_batch in flight: its arguments, its calls and the number of them    *)
(* that have returned.                                                     *)
(***************************************************************************)
B_Batches ==
    {Batch(<<M("k1", 1, 0, 0)>>, <<KV("p", "a")>>, <<KV("t", "a")>>),
     Batch(<<>>, <<KV("p", "a"), KV("p", "b")>>, <<KV("t", "a")>>),
     Batch(<<M("k1", 0, 0, 1)>>, <<>>, <<KV("t", "a"), KV("t", "b")>>),
     Batch(<<M("k1", 0, 0, 0), M("k1", 1, 0, 0), M("k1", 0, 1, 0)>>, <<>>, <<>>),
     Batch(<<M("k1", 1, 0, 0)>>, <<KV("p", "a")>>, <<KV("", "a")>>)}

B_create_run ==
    nops < MaxBatchOps /\ CreateRun({DEFAULT_EXPERIMENT_ID}, {"r1"}, {<<>>})
B_delete_run == nops < MaxBatchOps /\ DeleteRun({"r1"})
B_restore_run == nops < MaxBatchOps /\ RestoreRun({"r1"})
B_log_param == nops < MaxBatchOps /\ LogParam({"r1"}, {KV("p", "b")})

\* one client logs batches, one after the other
B_log_batch_check ==
    /\ nops < MaxBatchOps
    /\ \A i \in DOMAIN pending : pending[i].op # "log_batch"
    /\ LogBatchCheck(RunIds, B_Batches)
B_log_batch_call == LogBatchCall
B_log_batch_rollback == LogBatchParamRollback

BatchNext ==
    \/ B_create_run \/ B_delete_run \/ B_restore_run \/ B_log_param
    \/ B_log_batch_check \/ B_log_batch_call \/ B_log_batch_rollback

SpecBatch == Init /\ [][BatchNext]_vars

\* the items of a batch in the order the claim gives: params, metrics, tags
ExpectedItems(b) ==
    [i \in 1..Len(b.params) |-> [kind |-> "param", item |-> b.params[i]]]
    \o [i \in 1..Len(b.metrics) |-> [kind |-> "metric", item |-> b.metrics[i]]]
    \o [i \in 1..Len(b.tags) |-> [kind |-> "tag", item |-> b.tags[i]]]

\* what the single-item operation of an item does on d
ItemResult(d, run_id, it) ==
    CASE it.kind = "param" -> log_param(d, run_id, it.item)
      [] it.kind = "metric" -> log_metric(d, run_id, it.item)
      [] OTHER -> set_tag(d, run_id, it.item)

\* item i of the batch is stored: its param row, its metric fact, or the tag of
\* its key with the value of the last item of that key among the first n
ItemStored(d, run_id, items, i, n) ==
    LET it == items[i]
    IN  CASE it.kind = "param" ->
                [run_uuid |-> run_id, key |-> it.item.key, value |-> it.item.value]
                    \in d.params
          [] it.kind = "metric" ->
                \E m \in Range(d.metrics) :
                    /\ m.run_uuid = run_id /\ m.key = it.item.key
                    /\ m.timestamp = it.item.timestamp /\ m.step = it.item.step
                    /\ m.value = log_metric_value(it.item.value)
          [] OTHER ->
                LET j == CHOOSE j \in i..n :
                            /\ items[j].kind = "tag" /\ items[j].item.key = it.item.key
                            /\ \A l \in (j + 1)..n :
                                  ~(items[l].kind = "tag"
                                    /\ items[l].item.key = it.item.key)
                IN  [run_uuid |-> run_id, key |-> it.item.key,
                     value |-> items[j].item.value] \in d.tags

\* the log_batch calls in flight
BatchesInFlight == {i \in DOMAIN pending : pending[i].op = "log_batch"}

\* the step is one of log_batch i in flight: it goes on, or it returns
BatchActs(i) ==
    \/ Len(pending') = Len(pending) /\ pending'[i] # pending[i]
    \/ /\ Len(pending') < Len(pending) /\ pending' = Remove(pending, i)
       /\ last'.op = "log_batch" /\ last'.args = pending[i].args

\* log_batch i in flight is over, having raised exc
BatchRaises(i, exc) ==
    /\ pending' = Remove(pending, i)
    /\ last'.op = "log_batch" /\ last'.args = pending[i].args
    /\ last'.exc = exc /\ last'.applied = pending[i].pos

\* the step of a log_batch in flight: its next item is applied by its single-item
\* operation; if that raises, nothing is written, the batch is over and the
\* exception is the one log_batch raises; if not, the batch moves to the next item
\* or, after the last, returns.  (A log_param that raises for a key stored with
\* another value raises in a second transaction, after its rollback.)
BatchStepAsClaimed ==
    \A i \in BatchesInFlight : BatchActs(i) =>
        LET t == pending[i]
            items == ExpectedItems(t.args.batch)
            res == ItemResult(db, t.args.run_id, items[t.pos + 1])
        IN  /\ t.pos < Len(items)
            /\ IF t.pc = "rollback"
               THEN db' = db /\ BatchRaises(i, INVALID_PARAMETER_VALUE)
               ELSE IF res.exc = NoExc
               THEN /\ db' = res.db
                    /\ IF t.pos + 1 < Len(items)
                       THEN pending' = [pending EXCEPT ![i] = [t EXCEPT !.pos = @ + 1]]
                       ELSE /\ pending' = Remove(pending, i)
                            /\ last'.op = "log_batch" /\ last'.args = t.args
                            /\ last'.exc = NoExc /\ last'.applied = Len(items)
               ELSE /\ db' = db
                    /\ IF items[t.pos + 1].kind = "param"
                          /\ ParamsOf(db, t.args.run_id, items[t.pos + 1].item.key) # {}
                          /\ ACTIVE \in RunStages(db, t.args.run_id)
                       THEN /\ res.exc = INVALID_PARAMETER_VALUE
                            /\ pending' = [pending EXCEPT ![i] = [t EXCEPT !.pc = "rollback"]]
                       ELSE BatchRaises(i, res.exc)

\* the items before the one a log_batch is at, or failed at, are stored
BatchPrefixStored ==
    /\ \A b \in BatchesInFlight :
          \A i \in 1..pending[b].pos :
              ItemStored(db, pending[b].args.run_id, ExpectedItems(pending[b].args.batch),
                         i, pending[b].pos)
    /\ (BatchesInFlight = {} /\ last.op = "log_batch" /\ last.applied # None) =>
          /\ last.exc = NoExc <=> last.applied = Len(ExpectedItems(last.args.batch))
          /\ \A i \in 1..last.applied :
                ItemStored(db, last.args.run_id, ExpectedItems(last.args.batch),
                           i, last.applied)

\* C9: log_batch applies params, then metrics, then tags, each by its single-item
\* operation in a transaction of its own; when item i fails, the items before i are
\* stored, nothing of item i or after it is written, and log_batch raises the
\* error of item i.
C9_BatchPartialFailure == []BatchPrefixStored /\ [][BatchStepAsClaimed]_vars

\* C9 witness: a log_batch has raised at its second item (a metric, after the
\* run was deleted under it) and the param before it is stored.
C9_Witness ==
    /\ BatchesInFlight = {} /\ last.op = "log_batch" /\ last.applied = 1
    /\ last.exc = INVALID_PARAMETER_VALUE
    /\ ExpectedItems(last.args.batch)[2].kind = "metric"
    /\ [run_uuid |-> "r1", key |-> "p", value |-> "a"] \in db.params
    /\ db.metrics = <<>> /\ db.tags = {}

\* the up-front checks of a batch fail on d
UpFrontFails(d, args) ==
    \/ ~_validate_batch_log_data(args.batch.metrics, args.batch.params, args.batch.tags)
    \/ ~_validate_batch_log_limits(args.batch.metrics, args.batch.params, args.batch.tags)
    \/ ACTIVE \notin RunStages(d, args.run_id)

\* C10: a log_batch whose batch fails format or size validation, or whose run is
\* missing or not Active when it is checked, raises and none of its items is
\* applied: the database is unchanged and no call of the try block is made.
C10_BatchChecksFirst ==
    [][LET began == /\ Len(pending') > Len(pending)
                    /\ pending'[Len(pending')].op = "log_batch"
           args == IF began THEN pending'[Len(pending')].args ELSE last'.args
       IN  (began \/ (ReturnsAtOnce /\ last'.op = "log_batch"))
             => (UpFrontFails(db, args)
                   => (/\ ~began /\ db' = db
                       /\ last'.exc \in MlflowException /\ last'.applied = None))]_vars

\* C10 witness: a log_batch on a Deleted run has raised before its try block and
\* nothing of its batch is stored.
C10_Witness ==
    /\ last.op = "log_batch" /\ last.applied = None /\ last.exc # NoExc
    /\ DELETED \in RunStages(db, last.args.run_id)
    /\ ~UpFrontFails([db EXCEPT !.runs = {[r EXCEPT !.lifecycle_stage = ACTIVE] : r \in @}],
                     last.args)
    /\ db.params = {} /\ db.metrics = <<>> /\ db.tags = {}

(***************************************************************************)
(* SpecConc: two clients call the store at the same time.  A call is a     *)
(* managed session that runs statement by statement; txs[p] is the session *)
(* of client p.  create_engine (line 75) sets no isolation level and the   *)
(* store serves postgresql and mssql, whose default is READ COMMITTED:     *)
(* every statement reads what is committed when it runs, a session's own   *)
(* writes are seen by the others at its commit, SELECT ... FOR UPDATE      *)
(* locks the rows it returns until the session ends, and a write of a      *)
(* locked row waits.                                                       *)
(***************************************************************************)
MaxSetupOps == 2     \* calls made before the two clients start

ConcMetrics == {M("k1", 0, 0, 0), M("k1", 1, 0, 0), M("k1", 0, 0, 1)}
ConcCalls ==
    {[op |-> "log_metric", args |-> [run_id |-> "r1", metric |-> m]] : m \in ConcMetrics}
    \cup {[op |-> "log_param", args |-> [run_id |-> "r1", param |-> KV("p", v)]] :
             v \in {"a", "b"}}
    \cup {[op |-> "set_tag", args |-> [run_id |-> "r1", tag |-> KV("t", "a")]],
          [op |-> "delete_tag", args |-> [run_id |-> "r1", key |-> "t"]],
          [op |-> "update_run_info",
           args |-> [run_id |-> "r1", run_status |-> FINISHED, end_time |-> 1]],
          [op |-> "delete_run", args |-> [run_id |-> "r1"]]}

\* a session as make_managed_session opens it
NewSession(call, pc, exc) ==
    [op |-> call.op, args |-> call.args, pc |-> pc, exc |-> exc, info |-> <<>>,
     run |-> {},                \* the SqlRun _get_run loaded
     created |-> FALSE,         \* just_created of _get_or_create
     flushed |-> FALSE,         \* the INSERT of the metric was sent
     latest |-> {},             \* the SqlLatestMetric the locking query loaded
     locked |-> {},             \* the latest_metrics rows this session locked
     found |-> {},              \* the row session.merge or the tag query loaded
     write |-> "none",          \* what the commit has to flush
     integrity_error |-> FALSE] \* the inline commit of log_param raised

InFlight(p) == p \in DOMAIN txs /\ txs[p].pc # "done"
At(p, op, pc) == p \in DOMAIN txs /\ txs[p].op = op /\ txs[p].pc = pc

\* mutant: the session ends without releasing its row locks
Close_keeps_locks(p, out) ==
    LET res == make_managed_session(db, out)
    IN  [txs EXCEPT ![p] = [@ EXCEPT !.pc = "done", !.exc = res.exc, !.info = res.info,
                                      !.flushed = FALSE]]

\* the session of p ends: it raised exc (rolled back) or committed (NoExc)
Close(p, out) ==
    LET res == make_managed_session(db, out)
    IN  [txs EXCEPT ![p] = [@ EXCEPT !.pc = "done", !.exc = res.exc, !.info = res.info,
                                      !.locked = {}, !.flushed = FALSE]]

\* the metric fact log_metric stores
MetricRow(run_id, metric) ==
    [run_uuid |-> run_id, key |-> metric.key, value |-> log_metric_value(metric.value),
     timestamp |-> metric.timestamp, step |-> metric.step, is_nan |-> isnan(metric.value)]

\* the row a call's _get_or_create looks for
CallRow(t) ==
    IF t.op = "log_metric" THEN MetricRow(t.args.run_id, t.args.metric)
    ELSE [run_uuid |-> t.args.run_id, key |-> t.args.param.key,
          value |-> t.args.param.value]

\* the primary key of metrics: the committed rows an INSERT of row collides with
metric_pk_conflicts(d, row) == {m \in Range(d.metrics) : m = row}

\* the calls made before the clients start, each run to completion
C_create_run ==
    /\ txs = <<>> /\ nops < MaxSetupOps
    /\ CreateRun({DEFAULT_EXPERIMENT_ID}, {"r1"}, {<<>>})
C_log_metric ==
    /\ txs = <<>> /\ nops < MaxSetupOps /\ LogMetric({"r1"}, {M("k1", 0, 1, 0)})
C_log_param ==
    /\ txs = <<>> /\ nops < MaxSetupOps /\ LogParam({"r1"}, {KV("p", "a")})
C_set_tag ==
    /\ txs = <<>> /\ nops < MaxSetupOps /\ SetTag({"r1"}, {KV("t", "b")})

\* a client calls the store: the validation that precedes the session (log_metric)
\* or opens it (set_tag), then the session
T_begin ==
    /\ Len(txs) < Cardinality(Procs)
    /\ db.runs # {}
    /\ \E call \in ConcCalls :
        LET valid ==
              CASE call.op = "log_metric" ->
                      _validate_metric(call.args.metric.key, call.args.metric.value,
                                       call.args.metric.timestamp, call.args.metric.step)
                [] call.op = "set_tag" -> _validate_tag(call.args.tag.key, call.args.tag.value)
                [] OTHER -> TRUE
        IN  txs' = Append(txs, IF valid THEN NewSession(call, "get_run", NoExc)
                               ELSE NewSession(call, "done", INVALID_PARAMETER_VALUE))
    /\ UNCHANGED <<db, last, nops, pending>>

\* _get_run and _check_run_is_active, the first statements of every call
T_get_run ==
    \E p \in Procs :
        /\ InFlight(p) /\ txs[p].pc = "get_run"
        /\ LET t == txs[p]
               got == _get_run(db, t.args.run_id)
               chk == IF got.exc # NoExc THEN got.exc
                      ELSE _check_run_is_active(The(got.rows))
               next == CASE t.op \in {"log_metric", "log_param"} -> "get_or_create"
                         [] t.op = "set_tag" -> "merge"
                         [] t.op = "delete_tag" -> "query"
                         [] OTHER -> "commit"
           IN  txs' = IF chk # NoExc THEN Close(p, R(db, chk))
                      ELSE [txs EXCEPT ![p] = [@ EXCEPT !.run = got.rows, !.pc = next]]
        /\ UNCHANGED <<db, last, nops, pending>>

\* _get_or_create of log_metric and log_param: the SELECT, and session.add
T_get_or_create ==
    \E p \in Procs :
        /\ InFlight(p) /\ txs[p].pc = "get_or_create"
        /\ LET t == txs[p]
               goc == _get_or_create(IF t.op = "log_metric" THEN Range(db.metrics)
                                     ELSE db.params, CallRow(t))
           IN  txs' = [txs EXCEPT ![p] =
                          [@ EXCEPT !.created = goc.created,
                                    !.pc = IF t.op = "log_metric" /\ goc.created
                                           THEN "flush" ELSE "commit"]]
        /\ UNCHANGED <<db, last, nops, pending>>

\* the autoflush before the locking query: the INSERT of the metric.  It waits
\* for a session that has sent the same row, and fails on a committed one.
T_flush_metric ==
    \E p \in Procs :
        /\ At(p, "log_metric", "flush") /\ InFlight(p)
        /\ \A q \in DOMAIN txs \ {p} :
              ~(txs[q].op = "log_metric" /\ txs[q].flushed /\ CallRow(txs[q]) = CallRow(txs[p]))
        /\ txs' = IF metric_pk_conflicts(db, CallRow(txs[p])) # {}
                  THEN Close(p, R(db, IntegrityError))
                  ELSE [txs EXCEPT ![p] = [@ EXCEPT !.flushed = TRUE, !.pc = "lock"]]
        /\ UNCHANGED <<db, last, nops, pending>>

\* lines 474-481: the query with_for_update().one_or_none(), which locks the row
\* it finds and waits while another session holds it, and _compare_metrics
T_lock_latest ==
    \E p \in Procs :
        /\ At(p, "log_metric", "lock")
        /\ LET t == txs[p]
               rows == latest_metric_rows(db, t.args.run_id, t.args.metric.key)
               pks == {<<m.run_uuid, m.key>> : m \in rows}
           IN  /\ \A q \in DOMAIN txs \ {p} : txs[q].locked \cap pks = {}
               /\ txs' = [txs EXCEPT ![p] =
                     [@ EXCEPT !.latest = rows,
                               !.locked = pks,
                               !.pc = IF rows = {} \/ _compare_metrics(CallRow(t), The(rows))
                                      THEN "merge" ELSE "commit"]]
        /\ UNCHANGED <<db, last, nops, pending>>

\* lines 482-486: session.merge takes the row from the session if the locking
\* query loaded it, and otherwise SELECTs it by primary key; it updates the row
\* it has, or adds a new one
T_merge_latest ==
    \E p \in Procs :
        /\ At(p, "log_metric", "merge")
        /\ LET t == txs[p]
               found == IF t.latest # {} THEN t.latest
                        ELSE latest_metric_rows(db, t.args.run_id, t.args.metric.key)
           IN  txs' = [txs EXCEPT ![p] =
                          [@ EXCEPT !.found = found,
                                    !.write = IF found = {} THEN "insert" ELSE "update",
                                    !.pc = "commit"]]
        /\ UNCHANGED <<db, last, nops, pending>>

\* the UPDATE the unit of work sends for a merged row: the columns whose merged
\* value differs from the loaded one, on the row as it is now
updated_latest_metric(cur, loaded, row) ==
    [cur EXCEPT !.value = IF row.value # loaded.value THEN row.value ELSE @,
                !.timestamp = IF row.timestamp # loaded.timestamp THEN row.timestamp ELSE @,
                !.step = IF row.step # loaded.step THEN row.step ELSE @,
                !.is_nan = IF row.is_nan # loaded.is_nan THEN row.is_nan ELSE @]

\* session.commit() of log_metric (line 151): flush the latest_metrics write,
\* then commit the metric and the latest_metrics row together
T_commit_log_metric ==
    \E p \in Procs :
        /\ At(p, "log_metric", "commit")
        /\ LET t == txs[p]
               row == CallRow(t)
               cur == latest_metric_rows(db, row.run_uuid, row.key)
               d1 == IF t.created THEN [db EXCEPT !.metrics = Append(@, row)] ELSE db
           IN  \/ /\ t.write = "none"
                  /\ db' = d1
                  /\ txs' = Close(p, R(d1, NoExc))
               \/ /\ t.write = "insert"
                  /\ IF cur # {}
                     THEN /\ db' = db
                          /\ txs' = Close(p, R(db, IntegrityError))
                     ELSE /\ db' = merge_latest_metric(d1, row)
                          /\ txs' = Close(p, R(d1, NoExc))
               \/ /\ t.write = "update"
                  /\ cur # {}
                  /\ \A q \in DOMAIN txs \ {p} : <<row.run_uuid, row.key>> \notin txs[q].locked
                  /\ db' = merge_latest_metric(d1,
                              updated_latest_metric(The(cur), The(t.found), row))
                  /\ txs' = Close(p, R(d1, NoExc))
        /\ UNCHANGED <<last, nops, pending>>

\* session.commit() of log_param (line 515): the INSERT of the param
T_commit_log_param ==
    \E p \in Procs :
        /\ At(p, "log_param", "commit")
        /\ LET t == txs[p]
               row == CallRow(t)
           IN  IF t.created /\ param_pk_conflicts(db, row) # {}
               THEN /\ db' = db
                    /\ txs' = [txs EXCEPT ![p] = [@ EXCEPT !.integrity_error = TRUE,
                                                           !.pc = "rollback"]]
               ELSE /\ db' = IF t.created THEN [db EXCEPT !.params = @ \cup {row}] ELSE db
                    /\ txs' = Close(p, R(db, NoExc))
        /\ UNCHANGED <<last, nops, pending>>

\* lines 516-531: session.rollback(), run.params read again, and the raise
T_log_param_rollback ==
    \E p \in Procs :
        /\ At(p, "log_param", "rollback")
        /\ txs' = Close(p, log_param_on_integrity_error(db, txs[p].args.run_id,
                                                        txs[p].args.param))
        /\ UNCHANGED <<db, last, nops, pending>>

TagRow(t) == [run_uuid |-> t.args.run_id, key |-> t.args.tag.key, value |-> t.args.tag.value]
TagRows(d, run_id, key) == {x \in d.tags : x.run_uuid = run_id /\ x.key = key}

\* line 560: session.merge(SqlTag) SELECTs the tag by primary key
T_merge_tag ==
    \E p \in Procs :
        /\ At(p, "set_tag", "merge")
        /\ LET found == TagRows(db, txs[p].args.run_id, txs[p].args.tag.key)
           IN  txs' = [txs EXCEPT ![p] =
                          [@ EXCEPT !.found = found,
                                    !.write = IF found = {} THEN "insert"
                                              ELSE IF The(found) = TagRow(txs[p]) THEN "none"
                                              ELSE "update",
                                    !.pc = "commit"]]
        /\ UNCHANGED <<db, last, nops, pending>>

\* session.commit() of set_tag: the INSERT fails on a tag committed meanwhile, the
\* UPDATE on a tag deleted meanwhile (StaleDataError)
T_commit_set_tag ==
    \E p \in Procs :
        /\ At(p, "set_tag", "commit")
        /\ LET t == txs[p]
               cur == TagRows(db, t.args.run_id, t.args.tag.key)
               fails == \/ t.write = "insert" /\ cur # {}
                        \/ t.write = "update" /\ cur = {}
           IN  /\ db' = IF fails \/ t.write = "none" THEN db ELSE merge_tag(db, TagRow(t))
               /\ txs' = Close(p, R(db, IF fails THEN IntegrityError ELSE NoExc))
        /\ UNCHANGED <<last, nops, pending>>

\* lines 571-581: the tags of the key, and the two checks on their number
T_query_tags ==
    \E p \in Procs :
        /\ At(p, "delete_tag", "query")
        /\ LET filtered_tags == TagRows(db, txs[p].args.run_id, txs[p].args.key)
           IN  txs' = IF Cardinality(filtered_tags) = 0
                      THEN Close(p, R(db, RESOURCE_DOES_NOT_EXIST))
                      ELSE IF Cardinality(filtered_tags) > 1
                      THEN Close(p, R(db, INVALID_STATE))
                      ELSE [txs EXCEPT ![p] = [@ EXCEPT !.found = filtered_tags,
                                                        !.pc = "commit"]]
        /\ UNCHANGED <<db, last, nops, pending>>

\* session.delete(filtered_tags[0]) and the commit: DELETE by primary key
T_commit_delete_tag ==
    \E p \in Procs :
        /\ At(p, "delete_tag", "commit")
        /\ db' = [db EXCEPT !.tags = @ \ TagRows(db, txs[p].args.run_id, txs[p].args.key)]
        /\ txs' = Close(p, R(db, NoExc))
        /\ UNCHANGED <<last, nops, pending>>

\* the UPDATE of runs a commit sends: the columns the call assigned a value other
\* than the loaded one, on the row as it is now
updated_run(cur, loaded, new) ==
    [cur EXCEPT !.status = IF new.status # loaded.status THEN new.status ELSE @,
                !.end_time = IF new.end_time # loaded.end_time THEN new.end_time ELSE @,
                !.lifecycle_stage = IF new.lifecycle_stage # loaded.lifecycle_stage
                                    THEN new.lifecycle_stage ELSE @]

\* session.commit() of update_run_info
T_commit_update_run_info ==
    \E p \in Procs :
        /\ At(p, "update_run_info", "commit")
        /\ LET t == txs[p]
               loaded == The(t.run)
               new == [loaded EXCEPT !.status = t.args.run_status,
                                     !.end_time = t.args.end_time]
               cur == The(_get_run(db, t.args.run_id).rows)
           IN  db' = update_run(db, updated_run(cur, loaded, new))
        /\ txs' = Close(p, R(db, NoExc))
        /\ UNCHANGED <<last, nops, pending>>

\* session.commit() of delete_run
T_commit_delete_run ==
    \E p \in Procs :
        /\ At(p, "delete_run", "commit")
        /\ LET t == txs[p]
               loaded == The(t.run)
               new == [loaded EXCEPT !.lifecycle_stage = DELETED]
               cur == The(_get_run(db, t.args.run_id).rows)
           IN  db' = update_run(db, updated_run(cur, loaded, new))
        /\ txs' = Close(p, R(db, NoExc))
        /\ UNCHANGED <<last, nops, pending>>

ConcNext ==
    \/ C_create_run \/ C_log_metric \/ C_log_param \/ C_set_tag
    \/ T_begin \/ T_get_run \/ T_get_or_create
    \/ T_flush_metric \/ T_lock_latest \/ T_merge_latest \/ T_commit_log_metric
    \/ T_commit_log_param \/ T_log_param_rollback
    \/ T_merge_tag \/ T_commit_set_tag \/ T_query_tags \/ T_commit_delete_tag
    \/ T_commit_update_run_info \/ T_commit_delete_run

SpecConc == Init /\ [][ConcNext]_vars

Done(p, op) == p \in DOMAIN txs /\ txs[p].op = op /\ txs[p].pc = "done"

\* C2 as stated: once two concurrent log_metric calls of different facts of one
\* (run_id, key) have both finished, the LatestMetric row of the key is the
\* greatest of the committed facts, whether or not a row existed when they began.
C2_Original ==
    (/\ Done(1, "log_metric") /\ Done(2, "log_metric")
     /\ txs[1].args.metric # txs[2].args.metric)
       => \A k \in MetricKeys :
             FactsOf(db, "r1", k) # {}
                => /\ latest_metric_rows(db, "r1", k) # {}
                   /\ latest_metric_rows(db, "r1", k) \subseteq Greatest(db, "r1", k)

\* what is stored for a run, its lifecycle stage apart
RunData(d, run_id) ==
    [run     |-> {[r EXCEPT !.lifecycle_stage = ACTIVE] :
                     r \in {x \in d.runs : x.run_uuid = run_id}},
     metrics |-> SelectSeq(d.metrics, LAMBDA m : m.run_uuid = run_id),
     latest  |-> {m \in d.latest_metrics : m.run_uuid = run_id},
     params  |-> {x \in d.params : x.run_uuid = run_id},
     tags    |-> {x \in d.tags : x.run_uuid = run_id}]

\* C5 as stated: once the delete_run that made a run Deleted has committed, no
\* log_metric, log_param, set_tag, delete_tag or update_run_info commits a change
\* of the run.
C5_Original ==
    [][\A r \in RunIds :
          DELETED \in RunStages(db, r) => RunData(db', r) = RunData(db, r)]_vars

\* C8 as stated: a log_param whose inline commit hit the uniqueness violation
\* returns normally when the committed value of the key is the value it wrote,
\* and raises only when the two differ.
C8_Original ==
    \A p \in Procs :
        (Done(p, "log_param") /\ txs[p].integrity_error)
           => (txs[p].exc = NoExc
                  <=> CallRow(txs[p]) \in db.params)

(***************************************************************************)
(* SpecSession: one managed session at a time, statement by statement:     *)
(* session = SessionMaker(), the body of the with block, session.commit(), *)
(* the except clauses (rollback and raise) and the finally clause (close). *)
(* The body is the body of a public call; the commit flushes the body's    *)
(* writes and either commits them or raises what the database raised.      *)
(***************************************************************************)
MaxSessions == 3

SessionCalls ==
    {[op |-> "create_run", args |-> [experiment_id |-> DEFAULT_EXPERIMENT_ID,
                                     run_id |-> "r1", tags |-> <<>>]],
     [op |-> "set_tag", args |-> [run_id |-> "r1", tag |-> KV("t", "a")]],
     [op |-> "set_tag", args |-> [run_id |-> "r1", tag |-> KV("", "a")]],
     [op |-> "delete_tag", args |-> [run_id |-> "r1", key |-> "t"]],
     [op |-> "delete_run", args |-> [run_id |-> "r1"]],
     [op |-> "restore_run", args |-> [run_id |-> "r1"]],
     [op |-> "delete_experiment", args |-> [experiment_id |-> DEFAULT_EXPERIMENT_ID]],
     [op |-> "rename_experiment", args |-> [experiment_id |-> DEFAULT_EXPERIMENT_ID,
                                            new_name |-> "x"]]}

\* the body of the with block of a call, run on d
SessionBody(d, call) ==
    LET a == call.args
    IN  CASE call.op = "create_run" -> create_run_body(d, a.experiment_id, a.run_id, 0, a.tags)
          [] call.op = "set_tag" -> set_tag_body(d, a.run_id, a.tag)
          [] call.op = "delete_tag" -> delete_tag_body(d, a.run_id, a.key)
          [] call.op = "delete_run" -> delete_run_body(d, a.run_id)
          [] call.op = "restore_run" -> restore_run_body(d, a.run_id)
          [] call.op = "delete_experiment" -> delete_experiment_body(d, a.experiment_id)
          [] OTHER -> rename_experiment_body(d, a.experiment_id, a.new_name)

Session(call) ==
    [call |-> call, pc |-> "body",
     d0 |-> db,                 \* what is committed when the session opens
     out |-> R(db, NoExc),      \* what the body wrote, and what it or the commit raised
     res |-> R(db, NoExc),      \* what the caller gets
     commits |-> 0, rollbacks |-> 0, closes |-> 0]

SessionAt(pc) == txs # <<>> /\ txs[1].pc = pc

\* line 148: session = SessionMaker()
Sess_open ==
    /\ nops < MaxSessions
    /\ txs = <<>> \/ SessionAt("closed")
    /\ \E call \in SessionCalls : txs' = <<Session(call)>>
    /\ nops' = nops + 1
    /\ UNCHANGED <<db, last, pending>>

\* line 150: yield session
Sess_body ==
    /\ SessionAt("body")
    /\ LET out == SessionBody(db, txs[1].call)
       IN  txs' = <<[txs[1] EXCEPT !.out = out,
                                   !.pc = IF out.exc = NoExc THEN "commit" ELSE "except"]>>
    /\ UNCHANGED <<db, last, nops, pending>>

\* line 151: session.commit() returns
Sess_commit ==
    /\ SessionAt("commit")
    /\ LET res == make_managed_session(txs[1].d0, txs[1].out)
       IN  /\ db' = res.db
           /\ txs' = <<[txs[1] EXCEPT !.res = res, !.commits = @ + 1, !.pc = "finally"]>>
    /\ UNCHANGED <<last, nops, pending>>

\* line 151: session.commit() raises what the database raised
Sess_commit_raises ==
    /\ SessionAt("commit")
    /\ txs' = <<[txs[1] EXCEPT !.out = R(@.db, IntegrityError), !.pc = "except"]>>
    /\ UNCHANGED <<db, last, nops, pending>>

\* lines 152-157: session.rollback() and the raise
Sess_rollback ==
    /\ SessionAt("except")
    /\ LET res == make_managed_session(txs[1].d0, txs[1].out)
       IN  /\ db' = res.db
           /\ txs' = <<[txs[1] EXCEPT !.res = res, !.rollbacks = @ + 1, !.pc = "finally"]>>
    /\ UNCHANGED <<last, nops, pending>>

\* lines 158-159: session.close()
Sess_close ==
    /\ SessionAt("finally")
    /\ txs' = <<[txs[1] EXCEPT !.closes = @ + 1, !.pc = "closed"]>>
    /\ last' = [op |-> txs[1].call.op, args |-> txs[1].call.args, exc |-> txs[1].res.exc,
                info |-> txs[1].res.info, changed |-> db # txs[1].d0]
    /\ UNCHANGED <<db, nops, pending>>

SessionNext ==
    \/ Sess_open \/ Sess_body \/ Sess_commit \/ Sess_commit_raises
    \/ Sess_rollback \/ Sess_close

SpecSession == Init /\ [][SessionNext]_vars

\* C11: a managed session whose body and commit return commits once and makes the
\* body's writes visible; one whose body or commit raises rolls back once, leaves
\* the database as it was when the session opened and raises the MlflowException
\* unchanged or anything else as INTERNAL_ERROR; nothing is visible before the
\* commit; and the session is closed exactly once when it ends, never before.
C11_SessionProtocol ==
    txs # <<>> =>
        LET s == txs[1]
        IN  /\ s.closes = (IF s.pc = "closed" THEN 1 ELSE 0)
            /\ s.commits + s.rollbacks = (IF s.pc \in {"finally", "closed"} THEN 1 ELSE 0)
            /\ s.commits = 0 => db = s.d0
            /\ s.pc \in {"finally", "closed"} =>
                  IF s.out.exc = NoExc
                  THEN /\ s.commits = 1
                       /\ db = s.out.db
                       /\ s.res.exc = NoExc
                  ELSE /\ s.rollbacks = 1
                       /\ db = s.d0
                       /\ s.res.exc = (IF s.out.exc \in MlflowException THEN s.out.exc
                                       ELSE INTERNAL_ERROR)

\* a session whose commit raised after the body had written, now closed
C11_Witness ==
    /\ SessionAt("closed")
    /\ txs[1].out.exc = IntegrityError
    /\ txs[1].out.db # txs[1].d0
    /\ txs[1].res.exc = INTERNAL_ERROR
    /\ db = txs[1].d0

(***************************************************************************)
(* SpecExp: experiments.  create_experiment with and without a location,   *)
(* the lifecycle calls of experiments and of a run, rename, experiment     *)
(* tags, and the construction of another store on the same database.       *)
(***************************************************************************)
MaxExpOps == 4

ExpIds == {0, 1, 2}
ExpLocations == {NoLocation, <<"loc">>}

CreateExperiment(Names, Locations) ==
    \E name \in Names, artifact_location \in Locations :
        \E first \in create_experiment_first(db, name) :
            Call("create_experiment",
                 [name |-> name, artifact_location |-> artifact_location],
                 create_experiment(db, name, artifact_location, first))

\* SqlAlchemyStore(db_uri, default_artifact_root) on the database as it is
\* __init__, line 99: list_experiments() in its own session
StoreInitList ==
    IF store_init_list(db) THEN Begin(NewCall("__init__", <<>>, "create"))
    ELSE Call("__init__", <<>>, R(db, NoExc))

\* __init__, lines 100-101: the session of _create_default_experiment
StoreInitCreate ==
    \E i \in Pending("__init__", "create") : Return(i, <<>>, store_init_create(db))

StoreInit == StoreInitList \/ StoreInitCreate

E_create_experiment == nops < MaxExpOps /\ CreateExperiment({"", "a"}, ExpLocations)
E_delete_experiment == nops < MaxExpOps /\ DeleteExperiment(ExpIds)
E_restore_experiment == nops < MaxExpOps /\ RestoreExperiment(ExpIds)
E_rename_experiment == nops < MaxExpOps /\ RenameExperiment({0, 1}, {"a"})
E_set_experiment_tag == nops < MaxExpOps /\ SetExperimentTag({0}, {KV("t", "a")})
E_store_init == nops < MaxExpOps /\ StoreInit
E_create_run == nops < MaxExpOps /\ CreateRun({0, 1, None}, {"r1"}, {<<>>})
E_delete_run == nops < MaxExpOps /\ DeleteRun({"r1"})
E_restore_run == nops < MaxExpOps /\ RestoreRun({"r1"})

ExpNext ==
    \/ E_create_experiment \/ E_delete_experiment \/ E_restore_experiment
    \/ E_rename_experiment \/ E_set_experiment_tag \/ E_store_init
    \/ E_create_run \/ E_delete_run \/ E_restore_run

SpecExp == Init /\ [][ExpNext]_vars

\* the database with the lifecycle stage of one experiment set, all else as it is
WithExperimentStage(d, experiment_id, stage) ==
    [d EXCEPT !.experiments =
        {IF e.experiment_id = experiment_id THEN [e EXCEPT !.lifecycle_stage = stage] ELSE e :
            e \in @}]

Succeeded(l, op) == l.op = op /\ l.exc = NoExc

\* C12: delete_experiment of an Active experiment changes nothing but its stage, to
\* Deleted, and the restore_experiment that follows succeeds and changes nothing
\* but its stage, back to Active: name, artifact location, experiment tags and the
\* runs with their stage, status, metrics, params and tags are as before the delete.
C12_DeleteRestoreExperiment ==
    [][/\ (nops' # nops /\ Succeeded(last', "delete_experiment"))
            => /\ ExperimentStages(db, last'.args.experiment_id) = {ACTIVE}
               /\ db' = WithExperimentStage(db, last'.args.experiment_id, DELETED)
       /\ (/\ nops' # nops
           /\ Succeeded(last, "delete_experiment")
           /\ last'.op = "restore_experiment"
           /\ last'.args.experiment_id = last.args.experiment_id)
            => /\ last'.exc = NoExc
               /\ db # db'
               /\ db' = WithExperimentStage(db, last'.args.experiment_id, ACTIVE)]_vars

\* an experiment with a tag and a run has been restored
C12_Witness ==
    /\ Succeeded(last, "restore_experiment")
    /\ \E r \in db.runs : r.experiment_id = last.args.experiment_id
    /\ \E t \in db.experiment_tags : t.experiment_id = last.args.experiment_id
    /\ ExperimentStages(db, last.args.experiment_id) = {ACTIVE}

LifecycleOps == {"delete_experiment", "restore_experiment", "delete_run", "restore_run"}
OnExperiment(op) == op \in {"delete_experiment", "restore_experiment"}
StageFrom(op) == IF op \in {"delete_experiment", "delete_run"} THEN ACTIVE ELSE DELETED
StageTo(op) == IF op \in {"delete_experiment", "delete_run"} THEN DELETED ELSE ACTIVE

\* the stages of the entity a lifecycle call names: none if it does not exist
StagesOf(d, l) ==
    IF OnExperiment(l.op) THEN ExperimentStages(d, l.args.experiment_id)
    ELSE RunStages(d, l.args.run_id)

\* a delete or restore call: it succeeds only from its source stage and moves to
\* the other one; delete of an Active entity succeeds; on the wrong stage it raises
\* one of the given errors and changes nothing
LifecycleStep(experiment_errors, run_errors) ==
    (last'.op \in LifecycleOps /\ nops' # nops) =>
        LET op == last'.op
            before == StagesOf(db, last')
        IN  /\ last'.exc = NoExc
                 => before = {StageFrom(op)} /\ StagesOf(db', last') = {StageTo(op)}
            /\ (before = {ACTIVE} /\ StageFrom(op) = ACTIVE) => last'.exc = NoExc
            /\ before = {StageTo(op)}
                 => /\ last'.exc \in (IF OnExperiment(op) THEN experiment_errors
                                      ELSE run_errors)
                    /\ db' = db

StagesAreActiveOrDeleted ==
    /\ \A e \in db.experiments : e.lifecycle_stage \in {ACTIVE, DELETED}
    /\ \A r \in db.runs : r.lifecycle_stage \in {ACTIVE, DELETED}

\* C13 as stated: experiments and runs have the same Active/Deleted machine, and
\* delete on a Deleted entity and restore on an Active one fail with the error of
\* a lifecycle guard, whichever code the store gives such errors.
C13_Original ==
    [][LifecycleStep({INVALID_STATE, INVALID_PARAMETER_VALUE},
                     {INVALID_STATE, INVALID_PARAMETER_VALUE})]_vars

\* C13 as amended: delete succeeds only from Active and moves to Deleted, restore
\* succeeds only from Deleted and moves to Active, no other stage is reachable, and
\* delete on a Deleted entity and restore on an Active one change nothing and fail:
\* a run with INVALID_PARAMETER_VALUE, an experiment with RESOURCE_DOES_NOT_EXIST.
C13_Lifecycle ==
    /\ []StagesAreActiveOrDeleted
    /\ [][LifecycleStep({RESOURCE_DOES_NOT_EXIST}, {INVALID_PARAMETER_VALUE})]_vars

\* restore_experiment of an Active experiment has failed
C13_Witness ==
    /\ last.op = "restore_experiment"
    /\ last.exc = RESOURCE_DOES_NOT_EXIST
    /\ ExperimentStages(db, last.args.experiment_id) = {ACTIVE}

\* the experiments that hold a name and are not deleted
NameHolders(d, name) ==
    {e \in d.experiments : e.name = name /\ e.lifecycle_stage # DELETED}

NamesUnique ==
    \A e1, e2 \in db.experiments :
        (/\ e1.name = e2.name
         /\ e1.lifecycle_stage # DELETED
         /\ e2.lifecycle_stage # DELETED) => e1 = e2

\* C14 as stated: create_experiment with a name a non-deleted experiment holds fails
\* with RESOURCE_ALREADY_EXISTS and creates nothing, with or without an
\* artifact_location, and no two non-deleted experiments ever share a name.
C14_Original ==
    /\ []NamesUnique
    /\ [][(/\ last'.op = "create_experiment"
           /\ nops' # nops
           /\ NameHolders(db, last'.args.name) # {})
             => /\ last'.exc = RESOURCE_ALREADY_EXISTS
                /\ db' = db]_vars

DefaultExperiments == {e \in db.experiments : e.experiment_id = DEFAULT_EXPERIMENT_ID}

\* C15: in every state after the construction of the store there is exactly one
\* experiment with experiment_id 0, whatever create_experiment, delete_experiment,
\* restore_experiment, rename_experiment and further constructions are called.
C15_OneDefaultExperiment == Cardinality(DefaultExperiments) = 1

\* a store has been constructed on a database whose default experiment is
\* deleted, beside an experiment created since
C15_Witness ==
    /\ nops > 0
    /\ last.op = "__init__"
    /\ ExperimentStages(db, DEFAULT_EXPERIMENT_ID) = {DELETED}
    /\ \E e \in db.experiments : e.experiment_id # DEFAULT_EXPERIMENT_ID

\* C16 as stated: the construction of a store on a database that holds experiments,
\* deleted or not, succeeds and inserts nothing; the default experiment is inserted
\* only into a database with no experiment at all.
C16_Original ==
    [][(/\ last'.op = "__init__"
        /\ nops' # nops
        /\ db.experiments # {})
          => /\ last'.exc = NoExc
             /\ db' = db]_vars

\* C17 as stated: create_experiment without an artifact_location returns the id of
\* a new experiment whose artifact location is the artifact root joined with that
\* same id, and get_experiment of the returned id succeeds at once.
C17_Original ==
    [][(/\ Succeeded(last', "create_experiment")
        /\ nops' # nops
        /\ last'.args.artifact_location = NoLocation)
          => LET experiment_id == last'.info[1]
                 got == get_experiment(db', experiment_id)
             IN  /\ experiment_pk_conflicts(db, experiment_id) = {}
                 /\ got.exc = NoExc
                 /\ The(got.rows).artifact_location = _get_artifact_location(experiment_id)]_vars

(***************************************************************************)
(* Search.  SearchUtils and SEARCH_MAX_RESULTS_THRESHOLD are imported      *)
(* (lines 10, 24), and modelled as the design describes them: a filter     *)
(* over the fetched runs, a sort with ties broken by start time and run    *)
(* id, and pages cut at an offset the page token carries.                  *)
(***************************************************************************)
SEARCH_MAX_RESULTS_THRESHOLD == 3

NoFilter == [kind |-> "none", key |-> "", value |-> ""]
ParamFilter(key, value) == [kind |-> "params", key |-> key, value |-> value]
NoToken == <<>>

\* SearchUtils.filter: the runs the filter_string keeps
SearchUtils_filter(d, runs, filter_string) ==
    IF filter_string.kind = "none" THEN runs
    ELSE {r \in runs :
             [run_uuid |-> r.run_uuid, key |-> filter_string.key,
              value |-> filter_string.value] \in d.params}

\* the order of run ids
RunOrder(run_id) == CASE run_id = "r1" -> 1 [] run_id = "r2" -> 2 [] OTHER -> 3

\* the value a run is sorted by under an order_by clause on a metric: the value
\* of its latest metric, below every value when it has none
SortValue(d, run, clause) ==
    LET rows == latest_metric_rows(d, run.run_uuid, clause.key)
    IN  IF rows = {} THEN NegInf - 1 ELSE The(rows).value

\* run a comes before run b: the order_by clauses first, then start time, then id
SortsBefore(d, a, b, order_by) ==
    LET tie == \/ a.start_time < b.start_time
               \/ a.start_time = b.start_time /\ RunOrder(a.run_uuid) < RunOrder(b.run_uuid)
    IN  IF order_by = <<>> THEN tie
        ELSE LET va == SortValue(d, a, order_by[1])
                 vb == SortValue(d, b, order_by[1])
             IN  IF va = vb THEN tie
                 ELSE IF order_by[1].ascending THEN va < vb ELSE va > vb

\* SearchUtils.sort
RECURSIVE SearchUtils_sort(_, _, _)
SearchUtils_sort(d, runs, order_by) ==
    IF runs = {} THEN <<>>
    ELSE LET first == CHOOSE a \in runs :
                          \A b \in runs \ {a} : SortsBefore(d, a, b, order_by)
         IN  <<first>> \o SearchUtils_sort(d, runs \ {first}, order_by)

\* the page token and the offset it carries
_create_page_token(offset) == <<"offset", offset>>
_parse_start_offset_from_page_token(page_token) ==
    IF page_token = NoToken THEN 0 ELSE page_token[2]

\* SearchUtils.paginate: [runs, next_page_token]
SearchUtils_paginate(runs, page_token, max_results) ==
    LET start_offset == _parse_start_offset_from_page_token(page_token)
        final_offset == start_offset + max_results
        last_index == IF final_offset < Len(runs) THEN final_offset ELSE Len(runs)
    IN  [runs |-> SubSeq(runs, start_offset + 1, last_index),
         next_page_token |-> IF final_offset < Len(runs)
                             THEN _create_page_token(final_offset) ELSE NoToken]

\* lines 593-605: the runs the query returns
queried_runs(d, experiment_ids, run_view_type) ==
    {r \in d.runs :
        /\ r.experiment_id \in experiment_ids
        /\ r.lifecycle_stage \in view_type_to_stages(run_view_type)}

\* mutant: every page starts at the first run
_search_runs_ignores_token(d, experiment_ids, filter_string, run_view_type, max_results, order_by, page_token) ==
    IF max_results > SEARCH_MAX_RESULTS_THRESHOLD
    THEN RI(d, INVALID_PARAMETER_VALUE, [runs |-> <<>>, next_page_token |-> NoToken])
    ELSE RI(d, NoExc,
            SearchUtils_paginate(
                SearchUtils_sort(d,
                    SearchUtils_filter(d, queried_runs(d, experiment_ids, run_view_type),
                                       filter_string),
                    order_by),
                NoToken, max_results))
\* mutant: the runs of every lifecycle stage are fetched
_search_runs_any_stage(d, experiment_ids, filter_string, run_view_type, max_results, order_by, page_token) ==
    IF max_results > SEARCH_MAX_RESULTS_THRESHOLD
    THEN RI(d, INVALID_PARAMETER_VALUE, [runs |-> <<>>, next_page_token |-> NoToken])
    ELSE RI(d, NoExc,
            SearchUtils_paginate(
                SearchUtils_sort(d,
                    SearchUtils_filter(d, queried_runs(d, experiment_ids, ALL),
                                       filter_string),
                    order_by),
                page_token, max_results))
\* lines 584-611; info is what the call returns: [runs, next_page_token]
_search_runs(d, experiment_ids, filter_string, run_view_type, max_results, order_by, page_token) ==
    IF max_results > SEARCH_MAX_RESULTS_THRESHOLD
    THEN RI(d, INVALID_PARAMETER_VALUE, [runs |-> <<>>, next_page_token |-> NoToken])
    ELSE RI(d, NoExc,
            SearchUtils_paginate(
                SearchUtils_sort(d,
                    SearchUtils_filter(d, queried_runs(d, experiment_ids, run_view_type),
                                       filter_string),
                    order_by),
                page_token, max_results))

(***************************************************************************)
(* SpecSearch: experiments and runs are created, logged to and deleted;    *)
(* then a client searches and follows the page tokens, while nothing else  *)
(* is written.                                                             *)
(***************************************************************************)
MaxSearchOps == 5

SearchArgs ==
    [experiment_ids : {{0}, {0, 1}},
     filter_string  : {NoFilter, ParamFilter("p", "a")},
     run_view_type  : {ACTIVE_ONLY, DELETED_ONLY, ALL},
     max_results    : {1, 2, SEARCH_MAX_RESULTS_THRESHOLD + 1},
     order_by       : {<<>>, <<[kind |-> "metrics", key |-> "k1", ascending |-> FALSE]>>}]

SearchRuns(a, page_token) ==
    _search_runs(db, a.experiment_ids, a.filter_string, a.run_view_type, a.max_results,
                 a.order_by, page_token)

Q_create_experiment ==
    /\ txs = <<>> /\ nops < MaxSearchOps /\ CreateExperiment({"a"}, {NoLocation})
Q_create_run ==
    /\ txs = <<>> /\ nops < MaxSearchOps /\ CreateRun({0, 1}, RunIds, {<<>>})
Q_delete_run ==
    /\ txs = <<>> /\ nops < MaxSearchOps /\ DeleteRun({"r1", "r2"})
Q_delete_experiment ==
    /\ txs = <<>> /\ nops < MaxSearchOps /\ DeleteExperiment({1})
Q_log_param ==
    /\ txs = <<>> /\ nops < MaxSearchOps /\ LogParam({"r1", "r2"}, {KV("p", "a")})
Q_log_metric ==
    /\ txs = <<>> /\ nops < MaxSearchOps /\ LogMetric({"r2", "r3"}, {M("k1", 1, 0, 0)})

\* the first call of _search_runs, without a page token
Q_search ==
    /\ txs = <<>>
    /\ \E a \in SearchArgs :
          LET res == SearchRuns(a, NoToken)
          IN  /\ txs' = <<[args |-> a, exc |-> res.exc, runs |-> res.info.runs,
                           next_page_token |-> res.info.next_page_token, pages |-> 1]>>
              /\ last' = [op |-> "search_runs", args |-> a, exc |-> res.exc,
                          info |-> res.info, changed |-> FALSE]
    /\ UNCHANGED <<db, nops, pending>>

\* the next call, with the page token the last one returned
Q_search_next ==
    /\ txs # <<>>
    /\ txs[1].next_page_token # NoToken
    /\ LET res == SearchRuns(txs[1].args, txs[1].next_page_token)
       IN  /\ txs' = <<[txs[1] EXCEPT !.exc = res.exc,
                                      !.runs = @ \o res.info.runs,
                                      !.next_page_token = res.info.next_page_token,
                                      !.pages = @ + 1]>>
           /\ last' = [op |-> "search_runs", args |-> txs[1].args, exc |-> res.exc,
                       info |-> res.info, changed |-> FALSE]
    /\ UNCHANGED <<db, nops, pending>>

SearchNext ==
    \/ Q_create_experiment \/ Q_create_run \/ Q_delete_run \/ Q_delete_experiment
    \/ Q_log_param \/ Q_log_metric \/ Q_search \/ Q_search_next

SpecSearch == Init /\ [][SearchNext]_vars

\* the whole filtered and sorted result of the search a client is paging through
FullResult(a) ==
    SearchUtils_sort(db,
        SearchUtils_filter(db, queried_runs(db, a.experiment_ids, a.run_view_type),
                           a.filter_string),
        a.order_by)

\* C18: over an unchanging store and for max_results >= 1, the pages fetched so far
\* are, concatenated, the beginning of the whole filtered and sorted result, no run
\* is repeated, and when the token is absent they are the whole result.
C18_PagesAreTheResult ==
    (txs # <<>> /\ txs[1].exc = NoExc) =>
        LET got == txs[1].runs
            full == FullResult(txs[1].args)
        IN  /\ Len(got) <= Len(full)
            /\ got = SubSeq(full, 1, Len(got))
            /\ \A i, j \in 1..Len(got) : got[i] = got[j] => i = j
            /\ txs[1].next_page_token = NoToken => got = full
            /\ txs[1].next_page_token # NoToken => Len(got) = txs[1].pages * txs[1].args.max_results

\* three runs fetched in three pages of one run, sorted by a metric
C18_Witness ==
    /\ txs # <<>>
    /\ txs[1].next_page_token = NoToken
    /\ txs[1].pages = 3
    /\ Len(txs[1].runs) = 3
    /\ txs[1].args.order_by # <<>>
    /\ txs[1].runs[1].run_uuid # "r1"

\* C19: without a filter the runs a search returns are exactly the runs whose
\* experiment_id is among experiment_ids and whose own lifecycle_stage the view
\* admits, and with a filter they are among these; max_results above
\* SEARCH_MAX_RESULTS_THRESHOLD raises INVALID_PARAMETER_VALUE and returns no run.
C19_SearchCandidates ==
    txs # <<>> =>
        LET a == txs[1].args
            Candidate(r) ==
                /\ r.experiment_id \in a.experiment_ids
                /\ a.run_view_type = ACTIVE_ONLY => r.lifecycle_stage = ACTIVE
                /\ a.run_view_type = DELETED_ONLY => r.lifecycle_stage = DELETED
        IN  /\ a.max_results > SEARCH_MAX_RESULTS_THRESHOLD
                 => /\ txs[1].exc = INVALID_PARAMETER_VALUE
                    /\ txs[1].runs = <<>>
                    /\ txs[1].next_page_token = NoToken
            /\ a.max_results <= SEARCH_MAX_RESULTS_THRESHOLD => txs[1].exc = NoExc
            /\ \A r \in Range(txs[1].runs) : r \in db.runs /\ Candidate(r)
            /\ (/\ txs[1].exc = NoExc
                /\ txs[1].next_page_token = NoToken
                /\ a.filter_string = NoFilter)
                 => \A r \in db.runs : Candidate(r) => r \in Range(txs[1].runs)

\* an Active-only search over two experiments has returned the Active run of a
\* Deleted experiment and left out a Deleted run
C19_Witness ==
    /\ txs # <<>>
    /\ txs[1].args.run_view_type = ACTIVE_ONLY
    /\ txs[1].args.experiment_ids = {0, 1}
    /\ txs[1].next_page_token = NoToken
    /\ \E r \in Range(txs[1].runs) : ExperimentStages(db, r.experiment_id) = {DELETED}
    /\ \E r \in db.runs : r.lifecycle_stage = DELETED /\ r \notin Range(txs[1].runs)

\* the fact the design says log_metric stores for a metric
NormalizedFact(run_id, metric) ==
    [run_uuid  |-> run_id,
     key       |-> metric.key,
     value     |-> CASE metric.value = NaN -> 0
                     [] metric.value = PosInf -> FLOAT_MAX
                     [] metric.value = NegInf -> 0 - FLOAT_MAX
                     [] OTHER -> metric.value,
     timestamp |-> metric.timestamp,
     step      |-> metric.step,
     is_nan    |-> metric.value = NaN]

StoredMetricsAreNormalized ==
    /\ \A m \in Range(db.metrics) \cup db.latest_metrics :
          /\ 0 - FLOAT_MAX <= m.value /\ m.value <= FLOAT_MAX
          /\ m.is_nan => m.value = 0
    /\ db.latest_metrics \subseteq Range(db.metrics)

\* C20: a log_metric that succeeds stores value 0 with is_nan for NaN, FLOAT_MAX
\* for +Infinity, -FLOAT_MAX for -Infinity and any other value as it is, without
\* is_nan; when it writes the LatestMetric row the row has that value and flag, and
\* every LatestMetric row has the value and flag of a Metric fact.
C20_MetricNormalized ==
    /\ []StoredMetricsAreNormalized
    /\ [][(Succeeded(last', "log_metric") /\ nops' # nops)
            => LET fact == NormalizedFact(last'.args.run_id, last'.args.metric)
               IN  /\ fact \in Range(db'.metrics)
                   /\ \A m \in Range(db'.metrics) \ Range(db.metrics) : m = fact
                   /\ \A m \in db'.latest_metrics \ db.latest_metrics : m = fact]_vars

\* NaN has been logged and is the LatestMetric row, beside a clamped infinity
C20_Witness ==
    /\ Succeeded(last, "log_metric")
    /\ last.args.metric.value = NaN
    /\ NormalizedFact(last.args.run_id, last.args.metric) \in db.latest_metrics
    /\ \E m \in Range(db.metrics) : m.value = FLOAT_MAX

(***************************************************************************)
(* SpecTag: two runs, tags given at create_run (with repeated keys), set,  *)
(* overwritten and deleted, and tags of the default experiment.            *)
(***************************************************************************)
MaxTagOps == 4

TagRunIds == {"r1", "r2"}
TagKeys == {"t", "u"}
CreateRunTags ==
    {<<>>, <<KV("t", "a"), KV("t", "b")>>, <<KV("t", "b"), KV("u", "a"), KV("t", "a")>>}
SetTags == {KV("t", "a"), KV("t", "b"), KV("u", "b"), KV("", "a")}

G_create_run ==
    nops < MaxTagOps /\ CreateRun({DEFAULT_EXPERIMENT_ID}, TagRunIds, CreateRunTags)
G_set_tag == nops < MaxTagOps /\ SetTag(TagRunIds, SetTags)
G_delete_tag == nops < MaxTagOps /\ DeleteTag(TagRunIds, TagKeys)
G_set_experiment_tag ==
    nops < MaxTagOps /\ SetExperimentTag({DEFAULT_EXPERIMENT_ID, 1}, SetTags)
G_delete_run == nops < MaxTagOps /\ DeleteRun({"r1"})
G_restore_run == nops < MaxTagOps /\ RestoreRun({"r1"})

TagNext ==
    \/ G_create_run \/ G_set_tag \/ G_delete_tag \/ G_set_experiment_tag
    \/ G_delete_run \/ G_restore_run

SpecTag == Init /\ [][TagNext]_vars

\* the tag rows of a run and the rows of the other runs
TagsOfRun(d, run_id) == {t \in d.tags : t.run_uuid = run_id}
TagsOfOtherRuns(d, run_id) == {t \in d.tags : t.run_uuid # run_id}

OneRowPerTagKey ==
    /\ \A t1, t2 \in db.tags :
          (t1.run_uuid = t2.run_uuid /\ t1.key = t2.key) => t1 = t2
    /\ \A t1, t2 \in db.experiment_tags :
          (t1.experiment_id = t2.experiment_id /\ t1.key = t2.key) => t1 = t2

\* the value a sequence of tags gives last for a key
LastValueGiven(tags, key) ==
    LET at == {i \in 1..Len(tags) : tags[i].key = key}
    IN  tags[CHOOSE i \in at : \A j \in at : j <= i].value

\* what one committed call does to the tag rows
TagStep(l, d, e) ==
    CASE Succeeded(l, "set_tag") ->
            /\ TagsOfRun(e, l.args.run_id) =
                  {t \in TagsOfRun(d, l.args.run_id) : t.key # l.args.tag.key}
                  \cup {[run_uuid |-> l.args.run_id, key |-> l.args.tag.key,
                         value |-> l.args.tag.value]}
            /\ TagsOfOtherRuns(e, l.args.run_id) = TagsOfOtherRuns(d, l.args.run_id)
            /\ e.experiment_tags = d.experiment_tags
      [] Succeeded(l, "delete_tag") ->
            /\ TagsOfRun(e, l.args.run_id) =
                  {t \in TagsOfRun(d, l.args.run_id) : t.key # l.args.key}
            /\ \E t \in TagsOfRun(d, l.args.run_id) : t.key = l.args.key
            /\ TagsOfOtherRuns(e, l.args.run_id) = TagsOfOtherRuns(d, l.args.run_id)
            /\ e.experiment_tags = d.experiment_tags
      [] Succeeded(l, "create_run") ->
            /\ TagsOfRun(d, l.args.run_id) = {}
            /\ TagsOfRun(e, l.args.run_id) =
                  {[run_uuid |-> l.args.run_id, key |-> k,
                    value |-> LastValueGiven(l.args.tags, k)] :
                      k \in {l.args.tags[i].key : i \in 1..Len(l.args.tags)}}
            /\ TagsOfOtherRuns(e, l.args.run_id) = TagsOfOtherRuns(d, l.args.run_id)
            /\ e.experiment_tags = d.experiment_tags
      [] Succeeded(l, "set_experiment_tag") ->
            /\ e.tags = d.tags
            /\ e.experiment_tags =
                  {t \in d.experiment_tags :
                      ~(t.experiment_id = l.args.experiment_id /\ t.key = l.args.tag.key)}
                  \cup {[experiment_id |-> l.args.experiment_id, key |-> l.args.tag.key,
                         value |-> l.args.tag.value]}
      [] OTHER -> e.tags = d.tags /\ e.experiment_tags = d.experiment_tags

\* C21: tags are upserted, the last write wins.  Each (run, key) and each
\* (experiment, key) has at most one tag row; a committed set_tag or
\* set_experiment_tag leaves the key with the value it set, a committed delete_tag
\* leaves the key without a row, a committed create_run leaves each key it was
\* given with the last value given for it, and no call, failed or not, changes the
\* row of any other key.
C21_TagsLastWriteWins ==
    /\ []OneRowPerTagKey
    /\ [][nops' # nops => TagStep(last', db, db')]_vars

\* run r2 was created with t = b, u = a, t = a and holds t = a and u = a, beside
\* run r1 whose tag t holds b, the value given or set last
C21_Witness ==
    /\ Succeeded(last, "create_run")
    /\ Len(last.args.tags) = 3
    /\ TagsOfRun(db, "r2") = {[run_uuid |-> "r2", key |-> "t", value |-> "a"],
                              [run_uuid |-> "r2", key |-> "u", value |-> "a"]}
    /\ TagsOfRun(db, "r1") = {[run_uuid |-> "r1", key |-> "t", value |-> "b"]}

(***************************************************************************)
(* SpecHistory: one run, metrics logged and read back with                 *)
(* get_metric_history, the run deleted and restored in between.            *)
(***************************************************************************)
MaxHistoryOps == 4

HistoryMetrics ==
    {M("k1", 1, 1, 0), M("k1", 0, 0, 0), M("k1", 0, 0, 1), M("k1", NaN, 0, 0),
     M("k1", PosInf, 0, 0), M("k2", 0, 0, 0)}

GetMetricHistory(Runs, Keys) ==
    \E r \in Runs, k \in Keys :
        \E res \in get_metric_history(db, r, k) :
            Call("get_metric_history", [run_id |-> r, metric_key |-> k], res)

H_create_run ==
    nops < MaxHistoryOps /\ CreateRun({DEFAULT_EXPERIMENT_ID}, {"r1"}, {<<>>})
H_log_metric == nops < MaxHistoryOps /\ LogMetric({"r1"}, HistoryMetrics)
H_delete_run == nops < MaxHistoryOps /\ DeleteRun({"r1"})
H_restore_run == nops < MaxHistoryOps /\ RestoreRun({"r1"})
H_get_metric_history == nops < MaxHistoryOps /\ GetMetricHistory({"r1"}, {"k1", "k2"})

HistoryNext ==
    \/ H_create_run \/ H_log_metric \/ H_delete_run \/ H_restore_run
    \/ H_get_metric_history

SpecHistory == Init /\ [][HistoryNext]_vars

\* the facts of (run_id, key) in the order their log_metric calls committed
LoggedOrder(d, run_id, key) ==
    SelectSeq(d.metrics, LAMBDA m : m.run_uuid = run_id /\ m.key = key)

\* no call removes or alters a fact: the table only grows at its end
MetricsAppendOnly(d, e) ==
    /\ Len(d.metrics) <= Len(e.metrics)
    /\ SubSeq(e.metrics, 1, Len(d.metrics)) = d.metrics

\* C22 as stated: metric facts are append-only, no later call, failed or not,
\* removes or alters a committed fact, and get_metric_history(run_id, key) returns
\* all committed facts of the key in the order they were logged.
C22_Original ==
    /\ [][MetricsAppendOnly(db, db')]_vars
    /\ [](Succeeded(last, "get_metric_history")
            => last.info = LoggedOrder(db, last.args.run_id, last.args.metric_key))

\* the call just made logged, to a run that is Active, a fact the table already held
RelogsCommittedFact(l, d) ==
    /\ l.op = "log_metric"
    /\ NormalizedFact(l.args.run_id, l.args.metric) \in Range(d.metrics)
    /\ \E r \in d.runs : r.run_uuid = l.args.run_id /\ r.lifecycle_stage = ACTIVE

\* C23: log_metric is idempotent for an identical fact.  Logging to an Active run
\* a fact whose (run_id, key, value, timestamp, step, is_nan) is already committed
\* succeeds, adds no Metric row and leaves every LatestMetric row as it was.
C23_RelogIsIdempotent ==
    [][(nops' # nops /\ RelogsCommittedFact(last', db))
          => /\ last'.exc = NoExc
             /\ db'.metrics = db.metrics
             /\ db'.latest_metrics = db.latest_metrics
             /\ db' = db]_vars

\* a fact was logged again that is not the one the LatestMetric row of its key
\* holds: the call succeeded and changed nothing
C23_Witness ==
    /\ Succeeded(last, "log_metric")
    /\ ~last.changed
    /\ RelogsCommittedFact(last, db)
    /\ NormalizedFact(last.args.run_id, last.args.metric) \notin db.latest_metrics
    /\ Len(db.metrics) = 2

\* every stored run names an experiment that exists
RunsReferToExperiments ==
    \A r \in db.runs : \E e \in db.experiments : e.experiment_id = r.experiment_id

\* C24 as stated: each stored run's experiment_id is the id of an existing
\* experiment.  create_run for an experiment id that does not exist fails with
\* NotFound and stores no run, and a run created with an absent experiment id is
\* stored under the experiment the existence check resolved, never with a missing
\* or dangling experiment reference.
C24_Original ==
    /\ []RunsReferToExperiments
    /\ [][(last'.op = "create_run" /\ nops' # nops)
            => LET eid == IF last'.args.experiment_id = None THEN DEFAULT_EXPERIMENT_ID
                          ELSE last'.args.experiment_id
               IN  IF \E e \in db.experiments : e.experiment_id = eid
                   THEN last'.exc = NoExc
                           => \E r \in db'.runs \ db.runs : r.experiment_id = eid
                   ELSE last'.exc = RESOURCE_DOES_NOT_EXIST /\ db'.runs = db.runs]_vars

(***************************************************************************)
(* SpecRace: two clients call create_run, delete_experiment and            *)
(* restore_experiment on the default experiment at the same time, each     *)
(* call statement by statement as in SpecConc.  create_run reads the       *)
(* experiment through get_experiment, which opens and closes a session of  *)
(* its own (line 285) before the session of create_run writes anything.    *)
(***************************************************************************)
MaxRaceSetupOps == 1     \* calls made before the two clients start

RaceCalls ==
    {[op |-> "create_run", args |-> [experiment_id |-> DEFAULT_EXPERIMENT_ID]],
     [op |-> "delete_experiment", args |-> [experiment_id |-> DEFAULT_EXPERIMENT_ID]],
     [op |-> "restore_experiment", args |-> [experiment_id |-> DEFAULT_EXPERIMENT_ID]]}

\* uuid4() of the create_run of client p
RaceRunId(p) == IF p = 1 THEN "r1" ELSE "r2"

K_delete_experiment ==
    /\ txs = <<>> /\ nops < MaxRaceSetupOps
    /\ DeleteExperiment({DEFAULT_EXPERIMENT_ID})

\* a client calls the store and the managed session opens
X_begin ==
    /\ Len(txs) < Cardinality(Procs)
    /\ \E call \in RaceCalls : txs' = Append(txs, NewSession(call, "get_experiment", NoExc))
    /\ UNCHANGED <<db, last, nops, pending>>

\* lines 327-328 of create_run: get_experiment reads the experiment in its own
\* session and returns a detached entity; _check_experiment_is_active tests it
X_get_experiment ==
    \E p \in Procs :
        /\ At(p, "create_run", "get_experiment")
        /\ LET got == get_experiment(db, txs[p].args.experiment_id)
               chk == IF got.exc # NoExc THEN got.exc
                      ELSE _check_experiment_is_active(The(got.rows))
           IN  txs' = IF chk # NoExc THEN Close(p, R(db, chk))
                      ELSE [txs EXCEPT ![p] = [@ EXCEPT !.found = got.rows, !.pc = "commit"]]
        /\ UNCHANGED <<db, last, nops, pending>>

\* lines 330-345 and the commit of the session: the run and its tags are
\* inserted; the foreign key needs the experiment row, in whatever stage
X_commit_create_run ==
    \E p \in Procs :
        /\ At(p, "create_run", "commit")
        /\ LET t == txs[p]
               experiment == The(t.found)
               run == [run_uuid        |-> RaceRunId(p),
                       experiment_id   |-> t.args.experiment_id,
                       artifact_uri    |-> experiment.artifact_location
                                           \o <<RaceRunId(p), ARTIFACTS_FOLDER_NAME>>,
                       status          |-> RUNNING,
                       start_time      |-> 0,
                       end_time        |-> None,
                       lifecycle_stage |-> ACTIVE]
           IN  /\ db' = [db EXCEPT !.runs = @ \cup {run}]
               /\ txs' = Close(p, RI(db, NoExc, run))
        /\ UNCHANGED <<last, nops, pending>>

\* line 306 and line 312: _get_experiment with ACTIVE_ONLY (delete_experiment) or
\* DELETED_ONLY (restore_experiment), inside the session of the call
X_load_experiment ==
    \E p \in Procs :
        /\ \/ At(p, "delete_experiment", "get_experiment")
           \/ At(p, "restore_experiment", "get_experiment")
        /\ LET t == txs[p]
               got == _get_experiment(db, t.args.experiment_id,
                                      IF t.op = "delete_experiment" THEN ACTIVE_ONLY
                                      ELSE DELETED_ONLY)
           IN  txs' = IF got.exc # NoExc THEN Close(p, R(db, got.exc))
                      ELSE [txs EXCEPT ![p] = [@ EXCEPT !.found = got.rows, !.pc = "commit"]]
        /\ UNCHANGED <<db, last, nops, pending>>

\* lines 307-308 and 313-314 and the commit: UPDATE experiments SET
\* lifecycle_stage = ... WHERE experiment_id = ..., on the row as it is now
X_commit_experiment ==
    \E p \in Procs :
        /\ \/ At(p, "delete_experiment", "commit")
           \/ At(p, "restore_experiment", "commit")
        /\ LET t == txs[p]
               cur == The(_get_experiment(db, t.args.experiment_id, ALL).rows)
               stage == IF t.op = "delete_experiment" THEN DELETED ELSE ACTIVE
           IN  db' = update_experiment(db, [cur EXCEPT !.lifecycle_stage = stage])
        /\ txs' = Close(p, R(db, NoExc))
        /\ UNCHANGED <<last, nops, pending>>

RaceNext ==
    \/ K_delete_experiment \/ X_begin \/ X_get_experiment \/ X_commit_create_run
    \/ X_load_experiment \/ X_commit_experiment

SpecRace == Init /\ [][RaceNext]_vars

\* the experiment a run is stored under is Active in database d
UnderActiveExperiment(run, d) ==
    \E e \in d.experiments :
        e.experiment_id = run.experiment_id /\ e.lifecycle_stage = ACTIVE

\* C25 as stated: create_run never commits a run under an experiment that is
\* Deleted at the moment the run's transaction commits.  In every interleaving
\* with a delete_experiment of the same experiment, the run is created while the
\* experiment is still Active, or create_run fails and stores no run.
C25_Original ==
    [][\A run \in db'.runs \ db.runs : UnderActiveExperiment(run, db)]_vars

(***************************************************************************)
(* SpecLatest: log_metric calls of two clients on one key of one run, each *)
(* client calling again when its call has returned, statement by statement *)
(* with the steps of SpecConc.                                             *)
(***************************************************************************)
MaxLatestCalls == 4     \* create_run and the log_metric calls of the clients

LatestMetrics == {M("k1", 0, 0, 0), M("k1", 1, 0, 0), M("k1", 0, 1, 1)}

L_create_run ==
    /\ txs = <<>> /\ nops < MaxLatestCalls /\ db.runs = {}
    /\ CreateRun({DEFAULT_EXPERIMENT_ID}, {"r1"}, {<<>>})

\* a client calls log_metric: its first call, or the next one after a call that
\* has returned
L_begin ==
    /\ db.runs # {} /\ nops < MaxLatestCalls
    /\ \E m \in LatestMetrics :
          LET call == [op |-> "log_metric", args |-> [run_id |-> "r1", metric |-> m]]
              session ==
                IF _validate_metric(m.key, m.value, m.timestamp, m.step)
                THEN NewSession(call, "get_run", NoExc)
                ELSE NewSession(call, "done", INVALID_PARAMETER_VALUE)
          IN  \/ /\ Len(txs) < Cardinality(Procs)
                 /\ txs' = Append(txs, session)
              \/ \E p \in DOMAIN txs :
                    /\ txs[p].pc = "done"
                    /\ txs' = [txs EXCEPT ![p] = session]
    /\ nops' = nops + 1
    /\ UNCHANGED <<db, last, pending>>

LatestNext ==
    \/ L_create_run \/ L_begin \/ T_get_run \/ T_get_or_create
    \/ T_flush_metric \/ T_lock_latest \/ T_merge_latest \/ T_commit_log_metric

SpecLatest == Init /\ [][LatestNext]_vars

OneLatestMetricPerKey ==
    \A l1, l2 \in db.latest_metrics :
        (l1.run_uuid = l2.run_uuid /\ l1.key = l2.key) => l1 = l2

LatestMetricIffFact ==
    /\ \A l \in db.latest_metrics : FactsOf(db, l.run_uuid, l.key) # {}
    /\ \A m \in Range(db.metrics) : latest_metric_rows(db, m.run_uuid, m.key) # {}

LatestMetricIsAFact == db.latest_metrics \subseteq Range(db.metrics)

\* C26 as stated: in every committed state there is at most one LatestMetric row
\* per (run_id, key), a row exists for a key if and only if a Metric fact exists
\* for it, and every LatestMetric row equals one of the committed Metric facts of
\* its key.
C26_Original ==
    OneLatestMetricPerKey /\ LatestMetricIffFact /\ LatestMetricIsAFact

(***************************************************************************)
(* SpecLatestFair: SpecLatest under fair scheduling.  A client whose next  *)
(* statement can run does run it: its thread is not suspended for ever,    *)
(* and the database grants a row lock that is free to a session waiting    *)
(* for it.  No client has to call the store.                               *)
(***************************************************************************)
SpecLatestFair ==
    /\ SpecLatest
    /\ WF_vars(T_get_run) /\ WF_vars(T_get_or_create) /\ WF_vars(T_flush_metric)
    /\ WF_vars(T_lock_latest) /\ WF_vars(T_merge_latest) /\ WF_vars(T_commit_log_metric)

\* the LatestMetric row the call of client p asks the lock for
LatestPk(p) == <<txs[p].args.run_id, txs[p].args.metric.key>>

\* client p is at the locking query and another session holds the row lock
BlockedOnLock(p) ==
    /\ At(p, "log_metric", "lock")
    /\ \E q \in DOMAIN txs \ {p} : LatestPk(p) \in txs[q].locked

\* client p holds the row lock it asked for
HoldsLock(p) == p \in DOMAIN txs /\ LatestPk(p) \in txs[p].locked

\* the call of client p has returned or raised: its session is closed
Finished(p) == p \in DOMAIN txs /\ txs[p].pc = "done" /\ txs[p].locked = {}

\* a session holds at most one row lock, and none once it is closed
LocksHeld ==
    \A p \in DOMAIN txs :
        /\ Cardinality(txs[p].locked) <= 1
        /\ txs[p].pc = "done" => txs[p].locked = {}

\* C27: concurrent log_metric transactions never deadlock and always finish.  A
\* session holds at most one LatestMetric row lock and only until it commits or
\* rolls back; under fair scheduling a call blocked on the row lock of its
\* (run_id, key) eventually holds it, and every call eventually has committed or
\* failed, with its session closed and its lock released.
C27_LogMetricFinishes ==
    /\ []LocksHeld
    /\ \A p \in Procs : BlockedOnLock(p) ~> HoldsLock(p)
    /\ \A p \in Procs : InFlight(p) ~> Finished(p)

\* client 2 waits at the locking query for the row lock client 1 holds
C27_Witness ==
    /\ BlockedOnLock(2)
    /\ txs[1].locked = {LatestPk(2)}
    /\ txs[1].pc \in {"merge", "commit"}

====
